---- MODULE Spec2Model ----
(***************************************************************************)
(* Verification model of the backtesting harness:                          *)
(*   broker/paper_broker.py  - PaperBroker, the cash/position ledger       *)
(*   backtest/engine.py      - BacktestEngine.run_backtest, the candle loop*)
(*   config.py               - the risk parameters                         *)
(*   data/load_csv.py        - load_candles, validate_candle_row           *)
(*   strategies/             - BuyAndHoldStrategy, SMACrossStrategy        *)
(* Money, prices and sizes are Python floats, computed bit for bit.        *)
(* A Python None is the empty sequence, a present value v is <<v>>.        *)
(* A value computed once and read several times is bound once, as the      *)
(* member of a singleton set.                                               *)
(***************************************************************************)
EXTENDS Integers, Sequences, FiniteSets, TLC

VARIABLES
    initial_cash,              \* PaperBroker.initial_cash
    cash,                      \* PaperBroker.cash
    positions,                 \* PaperBroker.positions: symbol -> [amount, entry_price]
    lcall,                     \* the last direct ledger call: arguments, pre-state, return value
    nops,                      \* number of direct ledger calls made
    cooldown_candles,          \* config.COOLDOWN_CANDLES
    candles,                   \* the candle list handed to run_backtest
    history,                   \* run_backtest's local history list
    idx,                       \* number of candles the loop has taken from the list
    pc,                        \* "running" | "done" | "crashed"
    results,                   \* BacktestEngine.results
    equity_curve,              \* BacktestEngine.equity_curve
    candles_since_last_sell,   \* BacktestEngine.candles_since_last_sell
    ema_value,                 \* BacktestEngine.ema_value
    last_buy_price,            \* BacktestEngine.last_buy_price
    last,                      \* what the last loop iteration did
    log_fault,                 \* the log file that cannot be written, and from which step
    rows,                      \* load_candles: the data rows of the CSV file
    nread,                     \* load_candles: number of rows the loop has taken
    errors,                    \* load_candles: its local errors list
    trace,                     \* what each iteration of the first of two runs did
    first_run,                 \* the outcome of the first of two runs, once it is over
    calc,                      \* the last direct call of a computation: arguments and result
    strategy                   \* the strategy object handed to run_backtest: its fields

brokerVars == <<initial_cash, cash, positions>>
ledgerVars == <<lcall, nops>>
engineVars == <<cooldown_candles, candles, history, idx, pc, results, equity_curve,
                candles_since_last_sell, ema_value, last_buy_price, last, log_fault>>
loaderVars == <<rows, nread, errors>>
vars == <<initial_cash, cash, positions, lcall, nops, cooldown_candles, candles,
          history, idx, pc, results, equity_curve, candles_since_last_sell,
          ema_value, last_buy_price, last, log_fault, rows, nread, errors,
          trace, first_run, calc, strategy>>
rerunVars == <<trace, first_run>>

(***************************************************************************)
(* Bounds of the model.                                                    *)
(***************************************************************************)
MaxOps == 3
MaxCandles == 4
MaxCooldown == 2
MaxRows == 3
MaxSamples == 4

(***************************************************************************)
(* config.py                                                               *)
(***************************************************************************)
INITIAL_BALANCE == 10000
STOP_LOSS_PCT == -1
TAKE_PROFIT_PCT == 2
RISK_PER_TRADE_PCT == 1
TREND_EMA_PERIOD == 200

(***************************************************************************)
(* Python values: None / present.                                          *)
(***************************************************************************)
None == <<>>
Some(v) == <<v>>
IsNone(o) == o = <<>>
Val(o) == o[1]

(***************************************************************************)
(* Python floats as they are: IEEE-754 binary64, every operation rounded   *)
(* to nearest, ties to even.  A finite float other than zero is            *)
(* [neg, m, e] with value (-1)^neg * m * 2^e; the significand m is a       *)
(* natural number of exactly MANTISSA_BITS bits (a subnormal is held with  *)
(* its significand shifted up and its exponent below MIN_EXPONENT), as the *)
(* sequence of its base-LIMB digits, least significant first.  Zero has    *)
(* the empty significand and carries no sign: 0.0 and -0.0, equal in       *)
(* Python, are one value.  An infinity is held as +-2^1024, nan as the     *)
(* empty significand with exponent 1.                                      *)
(***************************************************************************)
MANTISSA_BITS == 53
MIN_EXPONENT == -1074
MAX_EXPONENT == 971
LIMB_BITS == 14
LIMB == 16384

\* naturals as sequences of limbs, least significant first
Limb(a, k) == IF k >= 1 /\ k <= Len(a) THEN a[k] ELSE 0

\* a without the zero limbs at its top
Trimmed(a) ==
    SubSeq(a, 1, CHOOSE n \in 0..Len(a) : /\ (n = 0 \/ a[n] # 0)
                                           /\ \A k \in (n + 1)..Len(a) : a[k] = 0)

\* the limbs of the columns lo..hi once the carry has gone through them, and the
\* carry out of column hi; the lower half is done first
RECURSIVE Carried(_, _, _, _)
Carried(cols, lo, hi, carry) ==
    IF lo = hi
    THEN [limbs |-> <<(cols[lo] + carry) % LIMB>>, carry |-> (cols[lo] + carry) \div LIMB]
    ELSE LET l == Carried(cols, lo, (lo + hi) \div 2, carry)
             h == Carried(cols, (lo + hi) \div 2 + 1, hi, l.carry)
         IN  [limbs |-> l.limbs \o h.limbs, carry |-> h.carry]

\* the natural number whose base-LIMB columns are cols
NatOf(cols) ==
    IF Len(cols) = 0 THEN <<>>
    ELSE LET r == Carried(cols, 1, Len(cols), 0)
         IN  Trimmed(r.limbs \o <<r.carry % LIMB, r.carry \div LIMB>>)

Max2(i, j) == IF i < j THEN j ELSE i

NatAdd(a, b) == NatOf([k \in 1..Max2(Len(a), Len(b)) |-> Limb(a, k) + Limb(b, k)])

\* a - b for a >= b: a plus the complement of b, less the carry out of the top
NatSub(a, b) ==
    IF a = <<>> THEN <<>>
    ELSE Trimmed(Carried([k \in 1..Len(a) |-> a[k] + (LIMB - 1 - Limb(b, k))],
                         1, Len(a), 1).limbs)

\* column k of a * b, the products a[i] * b[k - i + 1] for i in lo..hi: the sum of
\* their low limbs and the sum of their high limbs
RECURSIVE ColumnSum(_, _, _, _, _)
ColumnSum(a, b, k, lo, hi) ==
    IF lo = hi
    THEN LET p == IF k - lo >= 0 /\ k - lo < Len(b) THEN a[lo] * b[k - lo + 1] ELSE 0
         IN  [low |-> p % LIMB, high |-> p \div LIMB]
    ELSE LET l == ColumnSum(a, b, k, lo, (lo + hi) \div 2)
             h == ColumnSum(a, b, k, (lo + hi) \div 2 + 1, hi)
         IN  [low |-> l.low + h.low, high |-> l.high + h.high]

\* a * b: the high limbs of a column are counted in the next column
NatMul(a, b) ==
    IF a = <<>> \/ b = <<>> THEN <<>>
    ELSE NatOf([k \in 1..(Len(a) + Len(b)) |->
                  ColumnSum(a, b, k, 1, Len(a)).low + ColumnSum(a, b, k - 1, 1, Len(a)).high])

RECURSIVE NatLtFrom(_, _, _)
NatLtFrom(a, b, k) ==
    IF k = 0 THEN FALSE
    ELSE IF a[k] # b[k] THEN a[k] < b[k]
    ELSE NatLtFrom(a, b, k - 1)

NatLt(a, b) ==
    IF Len(a) # Len(b) THEN Len(a) < Len(b) ELSE NatLtFrom(a, b, Len(a))

LimbLength(x) == Cardinality({i \in 0..(LIMB_BITS - 1) : 2 ^ i <= x})

BitLength(a) == IF a = <<>> THEN 0 ELSE (Len(a) - 1) * LIMB_BITS + LimbLength(a[Len(a)])

ShiftLeft(a, s) ==
    IF a = <<>> THEN <<>>
    ELSE LET q == s \div LIMB_BITS
             t == s % LIMB_BITS
         IN  Trimmed([k \in 1..(Len(a) + q + 1) |->
                        (Limb(a, k - q) % (2 ^ (LIMB_BITS - t))) * (2 ^ t)
                        + Limb(a, k - q - 1) \div (2 ^ (LIMB_BITS - t))])

ShiftRight(a, s) ==
    LET q == s \div LIMB_BITS
        t == s % LIMB_BITS
    IN  IF Len(a) <= q THEN <<>>
        ELSE Trimmed([k \in 1..(Len(a) - q) |->
                        Limb(a, k + q) \div (2 ^ t)
                        + (Limb(a, k + q + 1) % (2 ^ t)) * (2 ^ (LIMB_BITS - t))])

Bit(a, i) == (Limb(a, i \div LIMB_BITS + 1) \div (2 ^ (i % LIMB_BITS))) % 2 = 1

\* some bit below position s is set
AnyBitBelow(a, s) ==
    \/ \E k \in 1..(s \div LIMB_BITS) : Limb(a, k) # 0
    \/ Limb(a, s \div LIMB_BITS + 1) % (2 ^ (s % LIMB_BITS)) # 0

FZero == [neg |-> FALSE, m |-> <<>>, e |-> 0]
NaN == [neg |-> FALSE, m |-> <<>>, e |-> 1]
Infinity(neg) ==
    [neg |-> neg, m |-> ShiftLeft(<<1>>, MANTISSA_BITS - 1), e |-> MAX_EXPONENT + 1]

IsNaN(x) == x.m = <<>> /\ x.e # 0
IsInf(x) == x.m # <<>> /\ x.e > MAX_EXPONENT

\* the float of significand m, of at most MANTISSA_BITS + 1 bits, and exponent e
Finite(neg, m, e) ==
    IF m = <<>> THEN FZero
    ELSE LET s == MANTISSA_BITS - BitLength(m)
         IN  IF e - s > MAX_EXPONENT THEN Infinity(neg)
             ELSE [neg |-> neg, m |-> IF s >= 0 THEN ShiftLeft(m, s) ELSE ShiftRight(m, 1),
                   e |-> e - s]

\* the float nearest to n * 2^e, or to a value between that and (n + 1) * 2^e when
\* inexact; every bit below 2^MIN_EXPONENT is cut
Round(neg, n, e, inexact) ==
    IF n = <<>> THEN FZero
    ELSE LET cut == Max2(BitLength(n) - MANTISSA_BITS, MIN_EXPONENT - e)
         IN  IF cut <= 0 THEN Finite(neg, n, e)
             ELSE LET kept   == ShiftRight(n, cut)
                      half   == Bit(n, cut - 1)
                      sticky == inexact \/ AnyBitBelow(n, cut - 1)
                      up     == half /\ (sticky \/ Limb(kept, 1) % 2 = 1)
                  IN  Finite(neg, IF up THEN NatAdd(kept, <<1>>) ELSE kept, e + cut)

FInt(n) ==
    LET a == IF n < 0 THEN -n ELSE n
    IN  Round(n < 0, Trimmed(<<a % LIMB, (a \div LIMB) % LIMB, a \div (LIMB * LIMB)>>), 0, FALSE)

FAbs(x) == [x EXCEPT !.neg = FALSE]
FNeg(x) == IF x.m = <<>> THEN x ELSE [x EXCEPT !.neg = ~x.neg]

FMul(x, y) ==
    IF IsNaN(x) \/ IsNaN(y) THEN NaN
    ELSE IF IsInf(x) \/ IsInf(y)
    THEN (IF x.m = <<>> \/ y.m = <<>> THEN NaN ELSE Infinity(x.neg # y.neg))
    ELSE IF x.m = <<>> \/ y.m = <<>> THEN FZero
    ELSE Round(x.neg # y.neg, NatMul(x.m, y.m), x.e + y.e, FALSE)

\* one digit of the long division, rem < d * LIMB: the digit is q or up to two below,
\* p being d * q; the result is the digit and the remainder left
RECURSIVE DivDigitFrom(_, _, _, _)
DivDigitFrom(rem, d, q, p) ==
    IF NatLt(rem, p)
    THEN CHOOSE r \in {DivDigitFrom(rem, d, q - 1, less) : less \in {NatSub(p, d)}} : TRUE
    ELSE [q |-> q, rem |-> NatSub(rem, p)]

DivDigit(rem, d) ==
    LET top == Limb(rem, Len(d) + 1) * LIMB + Limb(rem, Len(d))
        est == IF top \div d[Len(d)] >= LIMB THEN LIMB - 1 ELSE top \div d[Len(d)]
    IN  CHOOSE r \in {DivDigitFrom(rem, d, est, p) : p \in {NatMul(d, <<est>>)}} : TRUE

RECURSIVE DivDigits(_, _, _, _)
DivDigits(rem, d, n, q) ==
    IF n = 0 THEN [q |-> q, inexact |-> rem # <<>>]
    ELSE CHOOSE r \in {DivDigits(IF s.rem = <<>> THEN <<>> ELSE <<0>> \o s.rem, d, n - 1,
                                 <<s.q>> \o q) :
                         s \in {DivDigit(rem, d)}} : TRUE

\* the float nearest to n / d * 2^e, for naturals n and d other than 0: both are
\* shifted to one length, a multiple of LIMB_BITS, and five limbs of the quotient taken
Quotient(neg, n, d, e) ==
    LET len == LIMB_BITS * ((Max2(BitLength(n), BitLength(d)) + LIMB_BITS - 1) \div LIMB_BITS)
        a   == len - BitLength(n)
        b   == len - BitLength(d)
        r   == DivDigits(ShiftLeft(n, a), ShiftLeft(d, b), 5, <<>>)
    IN  Round(neg, Trimmed(r.q), e + b - a - 4 * LIMB_BITS, r.inexact)

\* x / y, y not zero (Python raises ZeroDivisionError on a zero divisor)
FDiv(x, y) ==
    IF IsNaN(x) \/ IsNaN(y) THEN NaN
    ELSE IF IsInf(x) THEN (IF IsInf(y) THEN NaN ELSE Infinity(x.neg # y.neg))
    ELSE IF IsInf(y) \/ x.m = <<>> THEN FZero
    ELSE Quotient(x.neg # y.neg, x.m, y.m, x.e - y.e)

MagLt(x, y) ==
    IF y.m = <<>> THEN FALSE
    ELSE IF x.m = <<>> THEN TRUE
    ELSE IF x.e # y.e THEN x.e < y.e
    ELSE NatLt(x.m, y.m)

FLt(x, y) ==
    IF IsNaN(x) \/ IsNaN(y) THEN FALSE
    ELSE IF x.neg /\ x.m # <<>>
    THEN (IF y.neg /\ y.m # <<>> THEN MagLt(y, x) ELSE TRUE)
    ELSE (IF y.neg /\ y.m # <<>> THEN FALSE ELSE MagLt(x, y))

FLe(x, y) == ~IsNaN(x) /\ ~IsNaN(y) /\ ~FLt(y, x)
FGt(x, y) == FLt(y, x)
FGe(x, y) == FLe(y, x)

\* min(x, y)
FMin(x, y) == IF FLt(y, x) THEN y ELSE x

FAR == MANTISSA_BITS + LIMB_BITS

FAdd(x, y) ==
    IF IsNaN(x) \/ IsNaN(y) THEN NaN
    ELSE IF IsInf(x) THEN (IF IsInf(y) /\ x.neg # y.neg THEN NaN ELSE x)
    ELSE IF IsInf(y) THEN y
    ELSE IF x.m = <<>> THEN y
    ELSE IF y.m = <<>> THEN x
    ELSE IF x.e - y.e > FAR THEN x
    ELSE IF y.e - x.e > FAR THEN y
    ELSE LET e0 == IF x.e < y.e THEN x.e ELSE y.e
             xm == ShiftLeft(x.m, x.e - e0)
             ym == ShiftLeft(y.m, y.e - e0)
         IN  IF x.neg = y.neg THEN Round(x.neg, NatAdd(xm, ym), e0, FALSE)
             ELSE IF xm = ym THEN FZero
             ELSE IF NatLt(xm, ym) THEN Round(y.neg, NatSub(ym, xm), e0, FALSE)
             ELSE Round(x.neg, NatSub(xm, ym), e0, FALSE)

FSub(x, y) == FAdd(x, FNeg(y))

(***************************************************************************)
(* Text.  A string is the sequence of its characters, a character a        *)
(* string of length one; a character TLA+ cannot write in a string is      *)
(* named by its code point, "U+017F".  Outside ASCII the alphabet is the   *)
(* characters named in UnicodeSpaces, UnicodeDigits and SpecialUpper and   *)
(* the sample of Uncased.                                                   *)
(***************************************************************************)
\* the text whose k-th character is f[k], as a sequence
Text(f) == SubSeq(f, 1, Len(f))

DigitChars == <<"0", "1", "2", "3", "4", "5", "6", "7", "8", "9">>

\* the characters Py_ISSPACE accepts
AsciiSpaces == {" ", "\t", "\n", "\r", "\f", "U+000B"}

\* characters outside ASCII that str.isspace accepts (a sample)
UnicodeSpaces == {"U+0085", "U+00A0", "U+2003", "U+3000"}

\* decimal digits outside ASCII (the Arabic-Indic and the fullwidth digits)
UnicodeDigits ==
    << <<"U+0660", "U+0661", "U+0662", "U+0663", "U+0664",
         "U+0665", "U+0666", "U+0667", "U+0668", "U+0669">>,
       <<"U+FF10", "U+FF11", "U+FF12", "U+FF13", "U+FF14",
         "U+FF15", "U+FF16", "U+FF17", "U+FF18", "U+FF19">> >>

\* _PyUnicode_TransformDecimalAndSpaceToASCII, one character
ToAscii(c) ==
    IF c \in UnicodeSpaces THEN " "
    ELSE IF \E f \in 1..Len(UnicodeDigits), k \in 1..10 : UnicodeDigits[f][k] = c
    THEN DigitChars[CHOOSE k \in 1..10 : \E f \in 1..Len(UnicodeDigits) : UnicodeDigits[f][k] = c]
    ELSE c

IsDigit(c) == \E k \in 1..10 : DigitChars[k] = c
DigitValue(c) == (CHOOSE k \in 1..10 : DigitChars[k] = c) - 1

\* the text without the white space at its ends (float_from_string_inner's caller)
Strip(s) ==
    LET inked == {k \in 1..Len(s) : s[k] \notin AsciiSpaces}
    IN  IF inked = {} THEN <<>>
        ELSE SubSeq(s, CHOOSE k \in inked : \A j \in inked : k <= j,
                       CHOOSE k \in inked : \A j \in inked : j <= k)

\* _Py_string_to_number_with_underscores: an underscore stands between two digits
UnderscoresOk(s) ==
    \A k \in 1..Len(s) :
        s[k] = "_" => /\ k > 1 /\ IsDigit(s[k - 1])
                      /\ k < Len(s) /\ IsDigit(s[k + 1])

WithoutUnderscores(s) == SelectSeq(s, LAMBDA c : c # "_")

\* the first position from i on that holds no digit
DigitsEnd(s, i) ==
    CHOOSE j \in i..(Len(s) + 1) :
        /\ \A k \in i..(j - 1) : IsDigit(s[k])
        /\ (j = Len(s) + 1 \/ ~IsDigit(s[j]))

\* 10^k, by squaring
RECURSIVE Pow10(_)
Pow10(k) ==
    IF k < 5 THEN <<10 ^ k>>
    ELSE CHOOSE r \in {NatMul(NatMul(h, h), <<10 ^ (k % 2)>>) :
                         h \in {Pow10(k \div 2)}} : TRUE

RECURSIVE DigitsValue(_, _, _)
DigitsValue(digits, lo, hi) ==
    IF hi < lo THEN 0 ELSE 10 * DigitsValue(digits, lo, hi - 1) + DigitValue(digits[hi])

\* the natural number the digits lo..hi of a text write, as limbs
RECURSIVE DigitsNat(_, _, _)
DigitsNat(digits, lo, hi) ==
    IF hi - lo < 4 THEN Trimmed(<<DigitsValue(digits, lo, hi)>>)
    ELSE CHOOSE r \in {NatAdd(NatMul(upper, Pow10(hi - mid)), lower) :
                         mid \in {(lo + hi) \div 2},
                         upper \in {DigitsNat(digits, lo, (lo + hi) \div 2)},
                         lower \in {DigitsNat(digits, (lo + hi) \div 2 + 1, hi)}} : TRUE

LeadingZeros(digits) ==
    CHOOSE n \in 0..Len(digits) :
        /\ \A k \in 1..n : digits[k] = "0"
        /\ (n = Len(digits) \/ digits[n + 1] # "0")

\* the largest exponent _Py_dg_strtod reads
MAX_ABS_EXP == 1100000000

\* the most digits, leading zeros aside, and the most fraction digits _Py_dg_strtod
\* reads; a longer text is a parse error
MAX_DIGITS == 1000000000

\* the range check of _Py_dg_strtod on the digits of a number and on its fraction
TooManyDigits(digits, fraction) ==
    \/ Len(digits) - LeadingZeros(digits) > MAX_DIGITS
    \/ Len(fraction) > MAX_DIGITS

\* the exponent a text of digits writes (_Py_dg_strtod): read as it stands up to
\* nine significant digits, taken as MAX_ABS_EXP beyond
DigitsExponent(digits) ==
    LET z == LeadingZeros(digits)
    IN  IF Len(digits) - z > 9 THEN MAX_ABS_EXP
        ELSE DigitsValue(digits, z + 1, Len(digits))

\* the float nearest to digits * 10^e10 (_Py_dg_strtod): beyond 10^310 it is an
\* infinity and below 10^-324 zero
DecimalValue(neg, digits, e10) ==
    LET nd == Len(digits) - LeadingZeros(digits)
    IN  IF nd = 0 THEN FZero
        ELSE IF nd + e10 > 310 THEN Infinity(neg)
        ELSE IF nd + e10 < -324 THEN FZero
        ELSE CHOOSE r \in {IF e10 >= 0 THEN Round(neg, NatMul(n, p), 0, FALSE)
                                        ELSE Quotient(neg, n, p, 0) :
                             n \in {DigitsNat(digits, 1, Len(digits))},
                             p \in {Pow10(IF e10 >= 0 THEN e10 ELSE -e10)}} : TRUE

AsciiLower == <<"a","b","c","d","e","f","g","h","i","j","k","l","m",
                "n","o","p","q","r","s","t","u","v","w","x","y","z">>
AsciiUpper == <<"A","B","C","D","E","F","G","H","I","J","K","L","M",
                "N","O","P","Q","R","S","T","U","V","W","X","Y","Z">>

LowerChar(c) ==
    IF \E k \in 1..26 : AsciiUpper[k] = c
    THEN AsciiLower[CHOOSE k \in 1..26 : AsciiUpper[k] = c] ELSE c

Lower(chars) == Text([k \in 1..Len(chars) |-> LowerChar(chars[k])])

\* float(text) for a str: None when it raises ValueError.  The white space is
\* stripped and the underscores are checked and dropped; then come the sign, inf or
\* nan, and the decimal number: digits up to i1, a fraction up to i2, an exponent.
\* A number of more than MAX_DIGITS digits or fraction digits raises as well.
ParseFloat(chars) ==
    LET Number(neg, body, i1, i2) ==
            LET dot  == i1 <= Len(body) /\ body[i1] = "."
                frac == IF dot THEN SubSeq(body, i1 + 1, i2 - 1) ELSE <<>>
                digs == SubSeq(body, 1, i1 - 1) \o frac
                exp  == i2 <= Len(body) /\ body[i2] \in {"e", "E"}
                esgn == exp /\ i2 + 1 <= Len(body) /\ body[i2 + 1] \in {"-", "+"}
                eneg == esgn /\ body[i2 + 1] = "-"
                j    == IF esgn THEN i2 + 2 ELSE i2 + 1
                i3   == IF exp THEN DigitsEnd(body, j) ELSE i2
                ev   == IF exp THEN DigitsExponent(SubSeq(body, j, i3 - 1)) ELSE 0
            IN  IF digs = <<>> \/ i3 <= Len(body) \/ (exp /\ i3 = j) THEN None
                ELSE IF TooManyDigits(digs, frac) THEN None
                ELSE CHOOSE r \in {Some(DecimalValue(neg, digs, e10)) :
                                     e10 \in {(IF eneg THEN -ev ELSE ev) - Len(frac)}} : TRUE
        Fraction(neg, body, i1) ==
            Number(neg, body, i1, IF i1 <= Len(body) /\ body[i1] = "."
                                  THEN DigitsEnd(body, i1 + 1) ELSE i1)
        Unsigned(neg, body) ==
            IF Lower(body) \in {<<"i","n","f">>, <<"i","n","f","i","n","i","t","y">>}
            THEN Some(Infinity(neg))
            ELSE IF Lower(body) = <<"n","a","n">> THEN Some(NaN)
            ELSE Fraction(neg, body, DigitsEnd(body, 1))
        Signed(s) ==
            Unsigned(s # <<>> /\ s[1] = "-",
                     IF s # <<>> /\ s[1] \in {"-", "+"} THEN Tail(s) ELSE s)
        Stripped(text) ==
            IF ~UnderscoresOk(text) THEN None ELSE Signed(WithoutUnderscores(text))
    IN  Stripped(Strip(Text([k \in 1..Len(chars) |-> ToAscii(chars[k])])))

(***************************************************************************)
(* Python dicts: the sequence of the items, in insertion order.            *)
(***************************************************************************)
EmptyDict == <<>>
DictKeys(d) == {d[k].key : k \in 1..Len(d)}
DictGet(d, key) == d[CHOOSE k \in 1..Len(d) : d[k].key = key].value

\* d[key] = value: a new key is appended, a key present keeps its place
DictPut(d, key, value) ==
    IF key \in DictKeys(d)
    THEN [k \in 1..Len(d) |-> IF d[k].key = key THEN [key |-> key, value |-> value] ELSE d[k]]
    ELSE Append(d, [key |-> key, value |-> value])

(***************************************************************************)
(* PaperBroker (broker/paper_broker.py).  A broker value is the record     *)
(* [cash, positions]; positions is the dict symbol -> [amount, entry_price].*)
(***************************************************************************)
Symbols == {"BTC/USDT", "ETH/USDT"}
SYMBOL == "BTC/USDT"

ClosedPosition == [amount |-> FZero, entry_price |-> FZero]

has_position(pos, symbol) ==
    IF symbol \notin DictKeys(pos) THEN FALSE
    ELSE FGt(DictGet(pos, symbol).amount, FZero)

position_amount(pos, symbol) ==
    IF symbol \notin DictKeys(pos) THEN FZero ELSE DictGet(pos, symbol).amount

position_entry(pos, symbol) ==
    IF symbol \notin DictKeys(pos) THEN FZero ELSE DictGet(pos, symbol).entry_price

OpenSymbols(pos) == {s \in DictKeys(pos) : FGt(DictGet(pos, s).amount, FZero)}

\* the loop of get_equity from item k on: prices is a function symbol -> price whose
\* domain is the set of keys of the dict passed
RECURSIVE EquityFrom(_, _, _, _)
EquityFrom(equity, pos, prices, k) ==
    IF k > Len(pos) THEN equity
    ELSE IF FGt(pos[k].value.amount, FZero) /\ pos[k].key \in DOMAIN prices
    THEN EquityFrom(FAdd(equity, FMul(pos[k].value.amount, prices[pos[k].key])),
                    pos, prices, k + 1)
    ELSE EquityFrom(equity, pos, prices, k + 1)

\* mutation: equity without the mark-to-market value of positions
get_equity_CashOnly(c, pos, prices) == c

\* get_equity(prices)
get_equity(c, pos, prices) == EquityFrom(c, pos, prices, 1)

PutPosition(pos, symbol, p) == DictPut(pos, symbol, p)

\* _buy: the result is [ok, cash, positions]
\* mutation: _buy without the open-position check
BuyGuardRejects_Missing(pos, symbol) == FALSE

\* the open-position check (line 104)
BuyGuardRejects(pos, symbol) == has_position(pos, symbol)

\* mutation: _buy without the cash check
CostExceedsCash_Missing(cost, c) == FALSE

\* the cash check (line 111)
CostExceedsCash(cost, c) == FGt(cost, c)

Buy(c, pos, symbol, amount, price) ==
    IF FLe(amount, FZero) \/ FLe(price, FZero)
    THEN [ok |-> FALSE, cash |-> c, positions |-> pos]
    ELSE IF BuyGuardRejects(pos, symbol)
    THEN [ok |-> FALSE, cash |-> c, positions |-> pos]
    ELSE LET cost == FMul(amount, price)
         IN  IF CostExceedsCash(cost, c)
             THEN [ok |-> FALSE, cash |-> c, positions |-> pos]
             ELSE [ok |-> TRUE,
                   cash |-> FSub(c, cost),
                   positions |-> PutPosition(pos, symbol,
                                     [amount |-> amount, entry_price |-> price])]

\* _sell: the result is [ok, cash, positions]
\* mutation: the proceeds are those of half the position
SellAmount_Half(amount, pos_amount) == FDiv(pos_amount, FInt(2))

\* the amount sold (line 148)
SellAmount(amount, pos_amount) == FMin(amount, pos_amount)

\* the input validation of _sell (line 137)
SellInputInvalid(amount, price) == FLe(amount, FZero) \/ FLe(price, FZero)

\* mutation: _sell leaves the position as it was
PositionAfterSell_Kept(pos, symbol) == pos

\* the positions after a sell: the symbol's slot is zeroed (lines 157-160)
PositionAfterSell(pos, symbol) == PutPosition(pos, symbol, ClosedPosition)

Sell(c, pos, symbol, amount, price) ==
    IF SellInputInvalid(amount, price)
    THEN [ok |-> FALSE, cash |-> c, positions |-> pos]
    ELSE IF ~has_position(pos, symbol)
    THEN [ok |-> FALSE, cash |-> c, positions |-> pos]
    ELSE LET sell_amount == SellAmount(amount, DictGet(pos, symbol).amount)
             proceeds == FMul(sell_amount, price)
         IN  [ok |-> TRUE,
              cash |-> FAdd(c, proceeds),
              positions |-> PositionAfterSell(pos, symbol)]

EmptyPositions == EmptyDict

\* mutation: reset restores the cash and keeps the positions
reset_CashOnly(ic, c, pos) == [cash |-> ic, positions |-> pos]

\* reset: the result is [cash, positions]
reset(ic, c, pos) == [cash |-> ic, positions |-> EmptyPositions]

(***************************************************************************)
(* Values the engine variables hold while the ledger is driven directly,   *)
(* and the ledger-call record while the engine runs.                       *)
(***************************************************************************)
NoCall == [op |-> "none", symbol |-> SYMBOL, amount |-> FZero, price |-> FZero,
           ret |-> FALSE, cash_before |-> FZero, pos_before |-> EmptyPositions,
           syms |-> {}]
NoCalc == [fn |-> "none"]
NoStrategy == [kind |-> "none"]
NoStep == [step |-> 0, price |-> FZero, invoked |-> FALSE, seen |-> <<>>,
           outcome |-> [kind |-> "none", chars |-> <<>>], trigger |-> None,
           traded |-> "NONE", ledger_ret |-> None,
           cash_before |-> FZero, pos_before |-> EmptyPositions, log_failed |-> FALSE]

(***************************************************************************)
(* The ledger driven directly: any sequence of _buy, _sell and reset calls *)
(* on a PaperBroker(initial_cash).                                         *)
(***************************************************************************)
LedgerCash == {FZero, FInt(1000)}
LedgerAmounts == {FInt(-1), FZero, FInt(1), FInt(2), FInt(10), FInt(11)}
LedgerPrices == {FInt(-5), FZero, FInt(100), FInt(110)}

LedgerInit ==
    /\ initial_cash \in LedgerCash
    /\ cash = initial_cash
    /\ positions = EmptyPositions
    /\ lcall = NoCall
    /\ nops = 0
    /\ cooldown_candles = 0
    /\ candles = <<>>
    /\ history = <<>>
    /\ idx = 0
    /\ pc = "idle"
    /\ results = <<>>
    /\ equity_curve = <<>>
    /\ candles_since_last_sell = None
    /\ ema_value = None
    /\ last_buy_price = None
    /\ last = NoStep
    /\ log_fault = None
    /\ rows = <<>>
    /\ nread = 0
    /\ errors = <<>>
    /\ trace = <<>>
    /\ first_run = None
    /\ calc = NoCalc
    /\ strategy = NoStrategy

CallBuy(symbol, amount, price) ==
    LET r == Buy(cash, positions, symbol, amount, price)
    IN  /\ nops < MaxOps
        /\ cash' = r.cash
        /\ positions' = r.positions
        /\ lcall' = [op |-> "buy", symbol |-> symbol, amount |-> amount, price |-> price,
                     ret |-> r.ok, cash_before |-> cash, pos_before |-> positions,
                     syms |-> lcall.syms \cup {symbol}]
        /\ nops' = nops + 1
        /\ UNCHANGED <<initial_cash, engineVars, loaderVars, rerunVars, calc, strategy>>

CallSell(symbol, amount, price) ==
    LET r == Sell(cash, positions, symbol, amount, price)
    IN  /\ nops < MaxOps
        /\ cash' = r.cash
        /\ positions' = r.positions
        /\ lcall' = [op |-> "sell", symbol |-> symbol, amount |-> amount, price |-> price,
                     ret |-> r.ok, cash_before |-> cash, pos_before |-> positions,
                     syms |-> lcall.syms \cup {symbol}]
        /\ nops' = nops + 1
        /\ UNCHANGED <<initial_cash, engineVars, loaderVars, rerunVars, calc, strategy>>

CallReset ==
    /\ nops < MaxOps
    /\ cash' = reset(initial_cash, cash, positions).cash
    /\ positions' = reset(initial_cash, cash, positions).positions
    /\ lcall' = [op |-> "reset", symbol |-> SYMBOL, amount |-> FZero, price |-> FZero,
                 ret |-> TRUE, cash_before |-> cash, pos_before |-> positions,
                 syms |-> lcall.syms]
    /\ nops' = nops + 1
    /\ UNCHANGED <<initial_cash, engineVars, loaderVars, rerunVars, calc, strategy>>

LedgerBuy == \E s \in Symbols, a \in LedgerAmounts, p \in LedgerPrices : CallBuy(s, a, p)
LedgerSell == \E s \in Symbols, a \in LedgerAmounts, p \in LedgerPrices : CallSell(s, a, p)

LedgerNext == LedgerBuy \/ LedgerSell \/ CallReset

LedgerSpec == LedgerInit /\ [][LedgerNext]_vars

(***************************************************************************)
(* Strategy results.  on_candle returns a string (a sequence of            *)
(* characters), None, or a value that is no string, or it raises.          *)
(***************************************************************************)
\* the characters outside ASCII whose upper case form holds an ASCII letter
SpecialUpper ==
    << <<"U+00DF", <<"S", "S">> >>,           <<"U+0131", <<"I">> >>,
       <<"U+0149", <<"U+02BC", "N">> >>,      <<"U+017F", <<"S">> >>,
       <<"U+01F0", <<"J", "U+030C">> >>,      <<"U+1E96", <<"H", "U+0331">> >>,
       <<"U+1E97", <<"T", "U+0308">> >>,      <<"U+1E98", <<"W", "U+030A">> >>,
       <<"U+1E99", <<"Y", "U+030A">> >>,      <<"U+1E9A", <<"A", "U+02BE">> >>,
       <<"U+FB00", <<"F", "F">> >>,           <<"U+FB01", <<"F", "I">> >>,
       <<"U+FB02", <<"F", "L">> >>,           <<"U+FB03", <<"F", "F", "I">> >>,
       <<"U+FB04", <<"F", "F", "L">> >>,      <<"U+FB05", <<"S", "T">> >>,
       <<"U+FB06", <<"S", "T">> >> >>

\* cased characters outside ASCII whose upper case form holds none (a sample)
OtherUpper ==
    << <<"U+00E9", <<"U+00C9">> >>, <<"U+00B5", <<"U+039C">> >>,
       <<"U+03C3", <<"U+03A3">> >>, <<"U+0451", <<"U+0401">> >> >>

UpperTable == SpecialUpper \o OtherUpper

\* str.upper() of one character: a string of one to three characters
UpperChar(c) ==
    IF \E k \in 1..26 : AsciiLower[k] = c
    THEN <<AsciiUpper[CHOOSE k \in 1..26 : AsciiLower[k] = c]>>
    ELSE IF \E k \in 1..Len(UpperTable) : UpperTable[k][1] = c
    THEN UpperTable[CHOOSE k \in 1..Len(UpperTable) : UpperTable[k][1] = c][2]
    ELSE <<c>>

\* str.upper()
RECURSIVE Upper(_)
Upper(chars) == IF chars = <<>> THEN <<>> ELSE UpperChar(Head(chars)) \o Upper(Tail(chars))

StrOutcome(chars) == [kind |-> "str", chars |-> chars]
NoneOutcome == [kind |-> "none", chars |-> <<>>]
IntOutcome == [kind |-> "int", chars |-> <<>>]       \* a truthy non-string, e.g. 7
RaiseOutcome == [kind |-> "raise", chars |-> <<>>]   \* on_candle raises

BUY == <<"B","U","Y">>
SELL == <<"S","E","L","L">>
HOLD == <<"H","O","L","D">>

Outcomes ==
    { StrOutcome(BUY), StrOutcome(<<"b","u","y">>), StrOutcome(SELL), StrOutcome(HOLD),
      NoneOutcome, IntOutcome, RaiseOutcome }

\* Python truthiness of the returned value (engine.py line 218)
Truthy(o) == \/ o.kind = "int"
             \/ o.kind = "str" /\ o.chars # <<>>

\* the call of on_candle and the normalisation raise (lines 215, 219)
StrategyFaults(o) == o.kind = "raise" \/ o.kind = "int"

\* mutation: the returned string is compared as it is
Normalize_CaseSensitive(o) == o.chars

\* the value compared with "BUY" / "SELL" (lines 218-221, 268)
Normalize(o) == IF o.kind = "str" /\ Truthy(o) THEN Upper(o.chars) ELSE o.chars

(***************************************************************************)
(* BacktestEngine helpers (backtest/engine.py).                            *)
(***************************************************************************)
Hundred == FInt(100)

\* _update_ema
update_ema(ema, close_price) ==
    LET k == FDiv(FInt(2), FInt(TREND_EMA_PERIOD + 1))
    IN  IF IsNone(ema) THEN Some(close_price)
        ELSE Some(FAdd(FMul(close_price, k), FMul(Val(ema), FSub(FInt(1), k))))

\* mutation: the filter lets every price pass while the EMA is unseeded
is_above_trend_FailOpen(ema, price) ==
    IF IsNone(ema) THEN TRUE ELSE FGt(price, Val(ema))

\* _is_above_trend
is_above_trend(ema, price) ==
    IF IsNone(ema) THEN FALSE ELSE FGt(price, Val(ema))

\* _calculate_position_size, given the ledger's cash and the values
\* config.RISK_PER_TRADE_PCT and config.STOP_LOSS_PCT have at the call
calculate_position_size_at(c, price, risk_pct, stop_loss_pct) ==
    IF FLe(price, FZero) \/ FLe(c, FZero) THEN FZero
    ELSE LET risk_amount == FMul(c, FDiv(risk_pct, Hundred))
             stop_distance == FMul(price, FDiv(FAbs(stop_loss_pct), Hundred))
         IN  IF FLe(stop_distance, FZero) THEN FZero
             ELSE FMin(FDiv(risk_amount, stop_distance), FDiv(c, price))

\* _calculate_position_size under the configuration of config.py
calculate_position_size(c, price) ==
    calculate_position_size_at(c, price, FInt(RISK_PER_TRADE_PCT), FInt(STOP_LOSS_PCT))

\* mutation: the stop-loss comparison is strict
check_stop_loss_take_profit_at_Strict(pos, symbol, current_price, stop_loss_pct, take_profit_pct) ==
    IF ~has_position(pos, symbol) THEN None
    ELSE LET entry_price == position_entry(pos, symbol)
         IN  IF FLe(entry_price, FZero) THEN None
             ELSE LET pnl_pct == FMul(FDiv(FSub(current_price, entry_price), entry_price),
                                      Hundred)
                  IN  IF FLt(pnl_pct, stop_loss_pct) THEN Some("STOP_LOSS")
                      ELSE IF FGe(pnl_pct, take_profit_pct) THEN Some("TAKE_PROFIT")
                      ELSE None

\* _check_stop_loss_take_profit, given the values config.STOP_LOSS_PCT and
\* config.TAKE_PROFIT_PCT have at the call: None, Some("STOP_LOSS") or Some("TAKE_PROFIT")
check_stop_loss_take_profit_at(pos, symbol, current_price, stop_loss_pct, take_profit_pct) ==
    IF ~has_position(pos, symbol) THEN None
    ELSE LET entry_price == position_entry(pos, symbol)
         IN  IF FLe(entry_price, FZero) THEN None
             ELSE LET pnl_pct == FMul(FDiv(FSub(current_price, entry_price), entry_price),
                                      Hundred)
                  IN  IF FLe(pnl_pct, stop_loss_pct) THEN Some("STOP_LOSS")
                      ELSE IF FGe(pnl_pct, take_profit_pct) THEN Some("TAKE_PROFIT")
                      ELSE None

\* _check_stop_loss_take_profit under the configuration of config.py
check_stop_loss_take_profit(pos, symbol, current_price) ==
    check_stop_loss_take_profit_at(pos, symbol, current_price,
                                   FInt(STOP_LOSS_PCT), FInt(TAKE_PROFIT_PCT))

\* mutation: the gate opens one candle early
CooldownBlocks_OneEarly(counter, cooldown) ==
    ~IsNone(counter) /\ Val(counter) + 1 < cooldown

\* the cooldown gate of the BUY branch (line 227)
CooldownBlocks(counter, cooldown) ==
    ~IsNone(counter) /\ Val(counter) < cooldown

\* mutation: the pnl of a SELL per unit, not multiplied by the amount sold
SellPnl_PerUnit(price, lbp, amount) ==
    IF ~IsNone(lbp) /\ Val(lbp) # FZero THEN FSub(price, Val(lbp)) ELSE FZero

\* pnl of a SELL (lines 190, 280): last_buy_price None or 0 is falsy
SellPnl(price, lbp, amount) ==
    IF ~IsNone(lbp) /\ Val(lbp) # FZero THEN FMul(FSub(price, Val(lbp)), amount) ELSE FZero

PriceDict(symbol, price) == [s \in {symbol} |-> price]

TradeRecord(candle, type, price, amount, balance_after, trigger, pnl) ==
    [timestamp |-> candle.timestamp, type |-> type, symbol |-> SYMBOL, price |-> price,
     amount |-> amount, balance_after |-> balance_after, trigger |-> trigger, pnl |-> pnl]

\* mutation: the ending balance is the ledger cash even when samples exist
evaluate_performance_CashOnly(broker_is_none, curve, c, res, initial_balance) ==
    IF broker_is_none
    THEN [ending_balance |-> FZero, num_trades |-> 0, pnl |-> FZero]
    ELSE [ending_balance |-> c, num_trades |-> Len(res),
          pnl |-> FSub(c, initial_balance)]

\* evaluate_performance, on the engine's equity_curve, broker.cash, results and
\* initial_balance; broker_is_none: no run was started on the engine
evaluate_performance(broker_is_none, curve, c, res, initial_balance) ==
    IF broker_is_none
    THEN [ending_balance |-> FZero, num_trades |-> 0, pnl |-> FZero]
    ELSE LET ending_balance == IF curve # <<>> THEN curve[Len(curve)] ELSE c
         IN  [ending_balance |-> ending_balance, num_trades |-> Len(res),
              pnl |-> FSub(ending_balance, initial_balance)]

\* the loop of _calculate_win_rate (lines 330-336) from record k on: the profits of the
\* SELL records that follow a BUY record, buy_price being the price of that BUY
RECURSIVE PairedProfits(_, _, _, _)
PairedProfits(res, k, buy_price, trades) ==
    IF k > Len(res) THEN trades
    ELSE IF res[k].type = "BUY"
    THEN PairedProfits(res, k + 1, Some(res[k].price), trades)
    ELSE IF res[k].type = "SELL" /\ ~IsNone(buy_price)
    THEN PairedProfits(res, k + 1, None, Append(trades, FSub(res[k].price, Val(buy_price))))
    ELSE PairedProfits(res, k + 1, buy_price, trades)

\* mutation: a trade that breaks even counts as a winner
WinningTrade_BreakEven(profit) == FGe(profit, FZero)

\* the test that counts a trade as a winner (line 341)
WinningTrade(profit) == FGt(profit, FZero)

\* _calculate_win_rate: (rate in percent, winning trades, trades)
calculate_win_rate(res) ==
    LET trades  == PairedProfits(res, 1, None, <<>>)
        winning == Cardinality({i \in 1..Len(trades) : WinningTrade(trades[i])})
    IN  IF trades = <<>> THEN [rate |-> FZero, winning |-> 0, total |-> 0]
        ELSE [rate |-> FMul(FDiv(FInt(winning), FInt(Len(trades))), Hundred),
              winning |-> winning, total |-> Len(trades)]

\* the peak after a sample
RunningPeak(peak, equity) == IF FGt(equity, peak) THEN equity ELSE peak

\* the loop of _calculate_max_drawdown from sample k on; the division raises
\* ZeroDivisionError when the peak is zero
RECURSIVE DrawdownLoop(_, _, _, _)
DrawdownLoop(curve, k, peak, max_drawdown) ==
    IF k > Len(curve) THEN [raised |-> FALSE, value |-> max_drawdown]
    ELSE LET equity == curve[k]
             peak1  == RunningPeak(peak, equity)
         IN  IF peak1 = FZero THEN [raised |-> TRUE, value |-> FZero]
             ELSE CHOOSE r \in
                    {DrawdownLoop(curve, k + 1, peak1,
                                  IF FGt(drawdown, max_drawdown) THEN drawdown
                                  ELSE max_drawdown) :
                       drawdown \in {FMul(FDiv(FSub(peak1, equity), peak1), FInt(100))}} :
                    TRUE

\* _calculate_max_drawdown over an equity curve of floats
calculate_max_drawdown(curve) ==
    IF Len(curve) < 2 THEN [raised |-> FALSE, value |-> FZero]
    ELSE DrawdownLoop(curve, 1, curve[1], FZero)

(***************************************************************************)
(* The log files.  open() of a log file raises OSError while the file is   *)
(* unwritable; a fault [file, from] makes `file` unwritable from the       *)
(* iteration for candle number `from` on, from = 0 meaning from the start  *)
(* of run_backtest.  None: both files stay writable.                       *)
(***************************************************************************)
LogFiles == {"trades", "equity"}     \* config.TRADES_LOG_FILE, config.EQUITY_LOG_FILE

\* _init_trade_log, _init_equity_log, _log_equity_to_csv, _log_trade_to_csv:
\* the write to `file` made at iteration `step` raises
LogWriteFails(fault, file, step) ==
    /\ ~IsNone(fault)
    /\ Val(fault).file = file
    /\ Val(fault).from <= step

(***************************************************************************)
(* Candles.  The engine reads timestamp, open and close of a candle.       *)
(***************************************************************************)
Candle(open, close) == [open |-> FInt(open), close |-> FInt(close)]

\* price courses, each repeated as far as the run is long: a gain large enough for the
\* take profit and then a fall, a fall to the stop loss, a rise and fall by turns, a
\* level course, a close above every later open, a candle without a price, and a
\* price that does not divide the balance
CandlePatterns ==
    { <<Candle(100, 98), Candle(100, 98), Candle(102, 98), Candle(100, 98), Candle(99, 98)>>,
      <<Candle(100, 98), Candle(100, 98), Candle(99, 98), Candle(100, 98), Candle(102, 98)>>,
      <<Candle(100, 98), Candle(102, 98), Candle(100, 98), Candle(102, 98)>>,
      <<Candle(100, 98)>>,
      <<Candle(0, 103), Candle(100, 98), Candle(100, 98), Candle(100, 98), Candle(100, 98)>>,
      <<Candle(100, 98), Candle(100, 98), Candle(0, 103), Candle(100, 98)>>,
      <<Candle(100, 98), Candle(102, 98), Candle(145, 98), Candle(145, 98)>> }

\* the first n candles of a course, numbered from 1
CandleList(p, n) ==
    [k \in 1..n |-> [timestamp |-> k, open |-> p[((k - 1) % Len(p)) + 1].open,
                                      close |-> p[((k - 1) % Len(p)) + 1].close]]

CandleLists == { CandleList(p, n) : p \in CandlePatterns, n \in 0..MaxCandles }

(***************************************************************************)
(* run_backtest: the state after its initialisation (lines 134-147).       *)
(***************************************************************************)
Init ==
    /\ initial_cash = FInt(INITIAL_BALANCE)
    /\ cash = initial_cash
    /\ positions = EmptyPositions
    /\ lcall = NoCall
    /\ nops = 0
    /\ cooldown_candles \in 0..MaxCooldown
    /\ candles \in CandleLists
    /\ history = <<>>
    /\ idx = 0
    /\ pc = "running"
    /\ results = <<>>
    /\ equity_curve = <<>>
    /\ candles_since_last_sell = None
    /\ ema_value = None
    /\ last_buy_price = None
    /\ last = NoStep
    /\ log_fault = None
    /\ rows = <<>>
    /\ nread = 0
    /\ errors = <<>>
    /\ trace = <<>>
    /\ first_run = None
    /\ calc = NoCalc
    /\ strategy = NoStrategy

(***************************************************************************)
(* One iteration of the candle loop (lines 163-302) for candle idx+1, with *)
(* o the result of strategy.on_candle should the iteration reach line 215. *)
(***************************************************************************)
\* mutation: on_candle is handed the whole candle list
StrategyView_WholeList(hist, all_candles) == all_candles

\* the list passed to on_candle as history (line 215)
StrategyView(hist, all_candles) == hist

\* the execution price of a candle (line 168)
ExecutionPrice(candle) == candle.open

\* mutation: the EMA is fed the close of the candle being processed
TrendClose_Current(cl, i) == cl[i + 1].close

\* the close fed to the EMA in the iteration for candles[i], i > 0: that of candles[i-1],
\* which is cl[i] in the list indexed from 1 (line 172)
TrendClose(cl, i) == cl[i].close

\* mutation: the risk check does not pre-empt the strategy
RiskExitTaken_Never(trigger) == FALSE

\* the `if sl_tp_trigger:` branch is taken (line 186)
RiskExitTaken(trigger) == ~IsNone(trigger)

\* mutation: the risk branch falls through to the strategy call
RiskBranchContinues_FallsThrough(trigger) == FALSE

\* the `continue` that ends the risk branch (line 212)
RiskBranchContinues(trigger) == TRUE

\* mutation: the return value of the ledger call is not tested
OrderExecuted_Ignored(r) == TRUE

\* the test of the ledger call's return value (lines 188, 247, 278)
OrderExecuted(r) == r.ok

\* The state a run holds between iterations.
RunState ==
    [cash |-> cash, positions |-> positions, history |-> history, idx |-> idx, pc |-> pc,
     results |-> results, equity_curve |-> equity_curve,
     candles_since_last_sell |-> candles_since_last_sell, ema_value |-> ema_value,
     last_buy_price |-> last_buy_price, last |-> last]

\* lines 198-211, 289-300: the trade of an executed SELL is recorded and logged, and
\* the entry price and the cooldown counter are reset
Sold(s, r, candle, amount, trig, lst, fault) ==
    LET price == ExecutionPrice(candle)
    IN  CHOOSE after \in
          { IF LogWriteFails(fault, "trades", s.idx)
            THEN \* _log_trade_to_csv raises (lines 203, 293)
                 [recorded EXCEPT !.pc = "crashed", !.last.log_failed = TRUE]
            ELSE [recorded EXCEPT !.last_buy_price = None,
                                  !.candles_since_last_sell = Some(0)] :
              recorded \in
                {[s EXCEPT !.cash = r.cash, !.positions = r.positions,
                    !.results = Append(s.results,
                        TradeRecord(candle, "SELL", price, amount,
                            get_equity(r.cash, r.positions, PriceDict(SYMBOL, price)),
                            trig, SellPnl(price, s.last_buy_price, amount))),
                    !.last = [lst EXCEPT !.traded = "SELL", !.ledger_ret = Some(TRUE)]]} } :
          TRUE

\* lines 186-212, the risk exit taken in the run state st1 for the trigger trig: the
\* whole position is sold at the execution price
RiskExit(st, st1, candle, trig, base, fault) ==
    LET amount == position_amount(st.positions, SYMBOL)
        price  == ExecutionPrice(candle)
    IN  CHOOSE exited \in
          { IF FGt(amount, FZero) /\ OrderExecuted(r)
            THEN Sold(st1, r, candle, amount, trig, base, fault)
            ELSE [st1 EXCEPT !.last.ledger_ret =
                     IF FGt(amount, FZero) THEN Some(FALSE) ELSE None] :
              r \in {Sell(st.cash, st.positions, SYMBOL, amount, price)} } : TRUE

\* lines 163-212, the iteration for candle cl[st.idx + 1] up to the strategy call: the
\* run state, the record of the step so far, and whether the strategy is consulted
BeforeStrategy(st, cl, fault) ==
    LET candle    == cl[st.idx + 1]
        hist1     == Append(st.history, candle)
        price     == ExecutionPrice(candle)
        counter1  == IF ~IsNone(st.candles_since_last_sell)
                     THEN Some(Val(st.candles_since_last_sell) + 1)
                     ELSE st.candles_since_last_sell
    IN
    CHOOSE b \in
      { LET base == [step |-> st.idx, price |-> price, invoked |-> FALSE, seen |-> <<>>,
                     outcome |-> NoneOutcome, trigger |-> trigger, traded |-> "NONE",
                     ledger_ret |-> None, cash_before |-> st.cash,
                     pos_before |-> st.positions, log_failed |-> FALSE]
            \* lines 165-181: what every iteration does before the risk check
            st1  == [st EXCEPT !.history = hist1, !.ema_value = ema1,
                               !.equity_curve = Append(st.equity_curve, equity),
                               !.candles_since_last_sell = counter1,
                               !.idx = st.idx + 1, !.last = base]
        IN
        IF LogWriteFails(fault, "equity", st.idx + 1)
        THEN \* _log_equity_to_csv raises (line 177)
             [state |-> [st EXCEPT !.history = hist1, !.ema_value = ema1,
                                   !.equity_curve = Append(st.equity_curve, equity),
                                   !.idx = st.idx + 1, !.pc = "crashed",
                                   !.last = [base EXCEPT !.log_failed = TRUE]],
              base |-> base, consult |-> FALSE]
        ELSE IF RiskExitTaken(trigger)
        THEN \* risk exit, lines 186-212
             CHOOSE x \in
               { [state |-> exited, base |-> base,
                  consult |-> ~(RiskBranchContinues(trigger) \/ exited.pc = "crashed")] :
                   exited \in {RiskExit(st, st1, candle, Val(trigger), base, fault)} } : TRUE
        ELSE [state |-> st1, base |-> base, consult |-> TRUE] :
          ema1    \in {IF st.idx > 0 THEN update_ema(st.ema_value, TrendClose(cl, st.idx))
                       ELSE st.ema_value},
          equity  \in {get_equity(st.cash, st.positions, PriceDict(SYMBOL, price))},
          trigger \in {check_stop_loss_take_profit(st.positions, SYMBOL, price)} } : TRUE

\* lines 221-266, the BUY branch
ConsultedBuy(s, called, candle, cooldown, fault) ==
    LET price == ExecutionPrice(candle)
        trades_log_fails == LogWriteFails(fault, "trades", s.idx)
    IN  CHOOSE after \in
          { LET gated == \/ has_position(s.positions, SYMBOL)
                         \/ CooldownBlocks(s.candles_since_last_sell, cooldown)
                         \/ ~is_above_trend(s.ema_value, price)
                         \/ FLe(s.cash, FZero)
                         \/ FLe(amount, FZero)
            IN  CHOOSE x \in
                  { IF ~gated /\ OrderExecuted(r)
                    THEN [s EXCEPT !.cash = r.cash, !.positions = r.positions,
                              !.last_buy_price = Some(price),
                              !.results = Append(s.results,
                                  TradeRecord(candle, "BUY", price, amount,
                                      get_equity(r.cash, r.positions,
                                                 PriceDict(SYMBOL, price)),
                                      "STRATEGY", FZero)),
                              \* _log_trade_to_csv raises (line 262)
                              !.pc = IF trades_log_fails THEN "crashed" ELSE s.pc,
                              !.last = [called EXCEPT !.traded = "BUY",
                                                      !.ledger_ret = Some(TRUE),
                                                      !.log_failed = trades_log_fails]]
                    ELSE [s EXCEPT !.last = [called EXCEPT !.ledger_ret =
                                                IF gated THEN None ELSE Some(FALSE)]] :
                      r \in {Buy(s.cash, s.positions, SYMBOL, amount, price)} } : TRUE :
              amount \in {calculate_position_size(s.cash, price)} } : TRUE

\* lines 268-300, the SELL branch
ConsultedSell(s, called, candle, fault) ==
    LET price  == ExecutionPrice(candle)
        amount == position_amount(s.positions, SYMBOL)
        gated  == ~has_position(s.positions, SYMBOL) \/ FLe(amount, FZero)
    IN  CHOOSE after \in
          { IF ~gated /\ OrderExecuted(r)
            THEN Sold(s, r, candle, amount, "STRATEGY", called, fault)
            ELSE [s EXCEPT !.last = [called EXCEPT !.ledger_ret =
                                        IF gated THEN None ELSE Some(FALSE)]] :
              r \in {Sell(s.cash, s.positions, SYMBOL, amount, price)} } : TRUE

\* lines 214-302: the strategy is consulted and returns o, the run being in state s
\* and the record of the step being base
Consulted(s, base, cl, cooldown, o, fault) ==
    LET candle == cl[s.idx]
        called == [base EXCEPT !.invoked = TRUE, !.outcome = o,
                               !.seen = StrategyView(s.history, cl)]
        signal == Normalize(o)
    IN  IF StrategyFaults(o)
        THEN \* the exception leaves run_backtest (lines 215, 219)
             [s EXCEPT !.pc = "crashed", !.last = called]
        ELSE IF signal = BUY THEN ConsultedBuy(s, called, candle, cooldown, fault)
        ELSE IF signal = SELL THEN ConsultedSell(s, called, candle, fault)
        ELSE \* HOLD, None or an unrecognised string: nothing (line 302)
             [s EXCEPT !.last = called]

\* The loop body: the run state after the iteration for candle cl[st.idx + 1].
Iteration(st, cl, cooldown, o, fault) ==
    CHOOSE after \in
      { IF b.consult THEN Consulted(b.state, b.base, cl, cooldown, o, fault) ELSE b.state :
          b \in {BeforeStrategy(st, cl, fault)} } : TRUE

\* the run variables take the values of the run state st
SetRunState(st) ==
    /\ cash' = st.cash
    /\ positions' = st.positions
    /\ history' = st.history
    /\ idx' = st.idx
    /\ pc' = st.pc
    /\ results' = st.results
    /\ equity_curve' = st.equity_curve
    /\ candles_since_last_sell' = st.candles_since_last_sell
    /\ ema_value' = st.ema_value
    /\ last_buy_price' = st.last_buy_price
    /\ last' = st.last

Step ==
    /\ pc = "running"
    /\ idx < Len(candles)
    /\ \E b \in {BeforeStrategy(RunState, candles, log_fault)} :
          \E o \in Outcomes :
              SetRunState(IF b.consult
                          THEN Consulted(b.state, b.base, candles, cooldown_candles, o,
                                         log_fault)
                          ELSE b.state)
    /\ UNCHANGED <<initial_cash, lcall, nops, cooldown_candles, candles, log_fault,
                   loaderVars, rerunVars, calc, strategy>>

\* the candle list is exhausted: the summary is printed and results returned (lines 304-306)
Finish ==
    /\ pc = "running"
    /\ idx = Len(candles)
    /\ pc' = "done"
    /\ UNCHANGED <<initial_cash, cash, positions, lcall, nops, cooldown_candles, candles,
                   history, idx, results, equity_curve, candles_since_last_sell,
                   ema_value, last_buy_price, last, log_fault, loaderVars, rerunVars, calc, strategy>>

Next == Step \/ Finish

Spec == Init /\ [][Next]_vars

(***************************************************************************)
(* A run during which one of the log files is, or becomes, unwritable.     *)
(* With the fault present from the start the header write of               *)
(* _init_trade_log or _init_equity_log (lines 145-146) raises after the    *)
(* run state was initialised and before the loop.                          *)
(***************************************************************************)
FewCandleKinds ==
    { [open |-> FInt(99),  close |-> FInt(98)],
      [open |-> FInt(102), close |-> FInt(98)] }

FewCandleLists ==
    UNION { { [k \in 1..n |-> [timestamp |-> k, open |-> f[k].open, close |-> f[k].close]]
              : f \in [1..n -> FewCandleKinds] } : n \in 0..MaxCandles }

LogFaults ==
    {None} \cup { Some([file |-> f, from |-> k]) : f \in LogFiles, k \in 0..MaxCandles }

FaultInit ==
    /\ initial_cash = FInt(INITIAL_BALANCE)
    /\ cash = initial_cash
    /\ positions = EmptyPositions
    /\ lcall = NoCall
    /\ nops = 0
    /\ cooldown_candles \in {0, 1}
    /\ candles \in FewCandleLists
    /\ log_fault \in LogFaults
    /\ history = <<>>
    /\ idx = 0
    /\ pc = IF \E f \in LogFiles : LogWriteFails(log_fault, f, 0) THEN "crashed" ELSE "running"
    /\ results = <<>>
    /\ equity_curve = <<>>
    /\ candles_since_last_sell = None
    /\ ema_value = None
    /\ last_buy_price = None
    /\ last = [NoStep EXCEPT !.log_failed = \E f \in LogFiles : LogWriteFails(log_fault, f, 0)]
    /\ rows = <<>>
    /\ nread = 0
    /\ errors = <<>>
    /\ trace = <<>>
    /\ first_run = None
    /\ calc = NoCalc
    /\ strategy = NoStrategy

FaultSpec == FaultInit /\ [][Next]_vars

(***************************************************************************)
(* A run whose strategy returns strings in any spelling, or nothing.       *)
(***************************************************************************)
SignalOutcomes ==
    { StrOutcome(BUY), StrOutcome(<<"b","u","y">>), StrOutcome(<<"B","u","y">>),
      StrOutcome(<<"b","U","Y">>),
      StrOutcome(SELL), StrOutcome(<<"s","e","l","l">>), StrOutcome(<<"S","e","l","l">>),
      StrOutcome(HOLD), StrOutcome(<<"h","o","l","d">>), StrOutcome(<<"B","U","Y","S">>),
      StrOutcome(<<" ","b","u","y">>), StrOutcome(<<>>),
      StrOutcome(<<"U+017F","e","l","l">>), StrOutcome(<<"U+00DF","e","l","l">>),
      NoneOutcome }

SignalInit ==
    /\ initial_cash = FInt(INITIAL_BALANCE)
    /\ cash = initial_cash
    /\ positions = EmptyPositions
    /\ lcall = NoCall
    /\ nops = 0
    /\ cooldown_candles = 0
    /\ candles \in FewCandleLists
    /\ history = <<>>
    /\ idx = 0
    /\ pc = "running"
    /\ results = <<>>
    /\ equity_curve = <<>>
    /\ candles_since_last_sell = None
    /\ ema_value = None
    /\ last_buy_price = None
    /\ last = NoStep
    /\ log_fault = None
    /\ rows = <<>>
    /\ nread = 0
    /\ errors = <<>>
    /\ trace = <<>>
    /\ first_run = None
    /\ calc = NoCalc
    /\ strategy = NoStrategy

SignalStep ==
    /\ pc = "running"
    /\ idx < Len(candles)
    /\ \E o \in SignalOutcomes :
          \E st \in {Iteration(RunState, candles, cooldown_candles, o, log_fault)} :
              SetRunState(st)
    /\ UNCHANGED <<initial_cash, lcall, nops, cooldown_candles, candles, log_fault,
                   loaderVars, rerunVars, calc, strategy>>

SignalNext == SignalStep \/ Finish

SignalSpec == SignalInit /\ [][SignalNext]_vars

(***************************************************************************)
(* Two consecutive run_backtest calls on one engine, with the same candles *)
(* and symbol.  The strategy keeps nothing from the first run: called in   *)
(* the second run at a step with the history and the broker it was called  *)
(* with at that step of the first run, it returns what it returned then.   *)
(***************************************************************************)
RerunOutcomes == {StrOutcome(BUY), StrOutcome(SELL), NoneOutcome, RaiseOutcome}

\* mutation: the cached trend EMA survives into the next run
run_backtest_init_KeepsEma(st, initial_balance) ==
    [cash |-> initial_balance, positions |-> EmptyPositions, history |-> <<>>, idx |-> 0,
     pc |-> "running", results |-> <<>>, equity_curve |-> <<>>,
     candles_since_last_sell |-> None, ema_value |-> st.ema_value,
     last_buy_price |-> None, last |-> NoStep]

\* lines 134-147: the run state after the initialisation of run_backtest, called
\* on an engine whose state is st
run_backtest_init(st, initial_balance) ==
    [cash |-> initial_balance, positions |-> EmptyPositions, history |-> <<>>, idx |-> 0,
     pc |-> "running", results |-> <<>>, equity_curve |-> <<>>,
     candles_since_last_sell |-> None, ema_value |-> None,
     last_buy_price |-> None, last |-> NoStep]

RerunInit ==
    /\ initial_cash = FInt(INITIAL_BALANCE)
    /\ cash = initial_cash
    /\ positions = EmptyPositions
    /\ lcall = NoCall
    /\ nops = 0
    /\ cooldown_candles \in {0, 1}
    /\ candles \in FewCandleLists
    /\ history = <<>>
    /\ idx = 0
    /\ pc = "running"
    /\ results = <<>>
    /\ equity_curve = <<>>
    /\ candles_since_last_sell = None
    /\ ema_value = None
    /\ last_buy_price = None
    /\ last = NoStep
    /\ log_fault = None
    /\ rows = <<>>
    /\ nread = 0
    /\ errors = <<>>
    /\ trace = <<>>
    /\ first_run = None
    /\ calc = NoCalc
    /\ strategy = NoStrategy

\* an iteration of the first run
FirstRunStep ==
    /\ IsNone(first_run)
    /\ pc = "running"
    /\ idx < Len(candles)
    /\ \E o \in RerunOutcomes :
          \E st \in {Iteration(RunState, candles, cooldown_candles, o, log_fault)} :
              /\ SetRunState(st)
              /\ trace' = Append(trace, st.last)
    /\ UNCHANGED <<initial_cash, lcall, nops, cooldown_candles, candles, log_fault,
                   loaderVars, first_run, calc, strategy>>

\* the first run has returned or raised; run_backtest is called again
Rerun ==
    /\ IsNone(first_run)
    /\ pc \in {"done", "crashed"}
    /\ first_run' = Some([results |-> results, equity_curve |-> equity_curve, pc |-> pc,
                          cash |-> cash, ema_value |-> ema_value])
    /\ SetRunState(run_backtest_init(RunState, initial_cash))
    /\ UNCHANGED <<initial_cash, lcall, nops, cooldown_candles, candles, log_fault,
                   loaderVars, trace, calc, strategy>>

\* on_candle is called at this step with the broker it saw at this step of the first run
SameStrategyInputs ==
    /\ idx + 1 <= Len(trace)
    /\ trace[idx + 1].invoked
    /\ trace[idx + 1].cash_before = cash
    /\ trace[idx + 1].pos_before = positions

\* an iteration of the second run
ReplayStep ==
    /\ ~IsNone(first_run)
    /\ pc = "running"
    /\ idx < Len(candles)
    /\ \E o \in RerunOutcomes :
          /\ SameStrategyInputs => o = trace[idx + 1].outcome
          /\ \E st \in {Iteration(RunState, candles, cooldown_candles, o, log_fault)} :
                 SetRunState(st)
    /\ UNCHANGED <<initial_cash, lcall, nops, cooldown_candles, candles, log_fault,
                   loaderVars, rerunVars, calc, strategy>>

RerunNext == FirstRunStep \/ Rerun \/ ReplayStep \/ Finish

RerunSpec == RerunInit /\ [][RerunNext]_vars

(***************************************************************************)
(* The strategies of strategies/buy_and_hold.py and strategies/sma_cross.py *)
(* as objects with fields; on_candle returns a value and leaves the object  *)
(* in a new state.                                                          *)
(***************************************************************************)
BuyAndHoldStrategy == [kind |-> "BuyAndHold", has_bought |-> FALSE]

SMACrossStrategy(fast, slow) ==
    [kind |-> "SMACross", fast |-> fast, slow |-> slow,
     prev_fast_ma |-> None, prev_slow_ma |-> None]

\* BuyAndHoldStrategy.on_candle: "BUY" once, then the None of a function that
\* ends without a return
BuyAndHold_on_candle(strat) ==
    IF ~strat.has_bought
    THEN [ret |-> StrOutcome(BUY), strategy |-> [strat EXCEPT !.has_bought = TRUE]]
    ELSE [ret |-> NoneOutcome, strategy |-> strat]

\* BuyAndHoldStrategy.execute_strategy(history): nothing for an empty history; an
\* order for the open of the newest candle at the first call with candles, which
\* sets has_bought; nothing afterwards.  The amount of the order is the int 0.
execute_strategy(strat, hist) ==
    IF hist = <<>> THEN [ret |-> None, strategy |-> strat]
    ELSE IF ~strat.has_bought
    THEN [ret |-> Some([type |-> BUY, symbol |-> SYMBOL, amount |-> FZero,
                        price |-> hist[Len(hist)].open]),
          strategy |-> [strat EXCEPT !.has_bought = TRUE]]
    ELSE [ret |-> None, strategy |-> strat]

\* sum(closes[k:]) after total: the builtin adds from the left, starting from 0
RECURSIVE SumFrom(_, _, _)
SumFrom(total, closes, k) ==
    IF k > Len(closes) THEN total ELSE SumFrom(FAdd(total, closes[k]), closes, k + 1)

\* the first index, counted from 1, of the slice closes[-period:] of a list of n
\* elements: the last `period` elements; closes[-0:] is the whole list, and with
\* period < 0 the slice starts after the first -period elements
SliceStart(n, period) == IF period > 0 THEN Max2(n - period, 0) + 1 ELSE 1 - period

\* SMACrossStrategy._calculate_sma: [raised, value], raised when the division by
\* period raises ZeroDivisionError, value None when the data are too few
calculate_sma(closes, period) ==
    IF Len(closes) < period THEN [raised |-> FALSE, value |-> None]
    ELSE IF period = 0 THEN [raised |-> TRUE, value |-> None]
    ELSE [raised |-> FALSE,
          value |-> Some(FDiv(SumFrom(FZero, closes, SliceStart(Len(closes), period)),
                              FInt(period)))]

\* the closes on_candle computes its averages from (line 62)
SignalCloses(hist) == [k \in 1..Len(hist) |-> hist[k].close]

\* SMACrossStrategy.on_candle; an exception of _calculate_sma leaves it before the
\* averages are stored
SMACross_on_candle(strat, hist, pos, symbol) ==
    IF Len(hist) < strat.slow + 1 THEN [ret |-> StrOutcome(HOLD), strategy |-> strat]
    ELSE
    CHOOSE r \in
      { LET crossed_up   == /\ FLe(Val(strat.prev_fast_ma), Val(strat.prev_slow_ma))
                            /\ FGt(Val(fast_ma.value), Val(slow_ma.value))
            crossed_down == /\ FGe(Val(strat.prev_fast_ma), Val(strat.prev_slow_ma))
                            /\ FLt(Val(fast_ma.value), Val(slow_ma.value))
            signal == IF IsNone(strat.prev_fast_ma) \/ IsNone(strat.prev_slow_ma) THEN HOLD
                      ELSE IF crossed_up
                           THEN (IF ~has_position(pos, symbol) THEN BUY ELSE HOLD)
                      ELSE IF crossed_down
                           THEN (IF has_position(pos, symbol) THEN SELL ELSE HOLD)
                      ELSE HOLD
        IN  IF fast_ma.raised \/ slow_ma.raised
            THEN [ret |-> RaiseOutcome, strategy |-> strat]
            ELSE IF IsNone(fast_ma.value) \/ IsNone(slow_ma.value)
            THEN [ret |-> StrOutcome(HOLD), strategy |-> strat]
            ELSE [ret |-> StrOutcome(signal),
                  strategy |-> [strat EXCEPT !.prev_fast_ma = fast_ma.value,
                                             !.prev_slow_ma = slow_ma.value]] :
          fast_ma \in {calculate_sma(SignalCloses(hist), strat.fast)},
          slow_ma \in {calculate_sma(SignalCloses(hist), strat.slow)} } : TRUE

\* strategy.on_candle(history, self.broker, symbol) (line 215)
on_candle(strat, hist, pos, symbol) ==
    IF strat.kind = "BuyAndHold" THEN BuyAndHold_on_candle(strat)
    ELSE SMACross_on_candle(strat, hist, pos, symbol)

(***************************************************************************)
(* run_backtest called twice on one engine with one strategy object, the   *)
(* same candles and the same symbol.  The strategy object is fresh at the  *)
(* first call and is what the first run left at the second.                *)
(***************************************************************************)
StrategyCandleKinds ==
    { Candle(101, 96), Candle(101, 98), Candle(101, 100), Candle(104, 100) }

\* courses of closes: a dip and recovery, a fall that ends low, the same fall with a
\* last close back up, a course opening higher, and a level course
StrategyCandlePatterns ==
    { <<Candle(101, 96), Candle(101, 96), Candle(101, 98), Candle(101, 96)>>,
      <<Candle(101, 100), Candle(101, 98), Candle(101, 96), Candle(101, 96),
        Candle(101, 100)>>,
      <<Candle(101, 100), Candle(101, 98), Candle(101, 96), Candle(101, 100),
        Candle(101, 96)>>,
      <<Candle(104, 100), Candle(101, 98), Candle(101, 100), Candle(101, 96)>>,
      <<Candle(101, 98)>> }

StrategyCandleLists ==
    { CandleList(p, n) : p \in StrategyCandlePatterns, n \in 0..MaxCandles }

\* the constructor of SMACrossStrategy takes any periods: beside (1, 2), a fast or a
\* slow period of 0 and a negative fast period
Strategies ==
    { BuyAndHoldStrategy, SMACrossStrategy(1, 2), SMACrossStrategy(0, 2),
      SMACrossStrategy(-1, 2), SMACrossStrategy(1, 0) }

StrategyInit ==
    /\ initial_cash = FInt(INITIAL_BALANCE)
    /\ cash = initial_cash
    /\ positions = EmptyPositions
    /\ lcall = NoCall
    /\ nops = 0
    /\ cooldown_candles \in {0, 1}
    /\ candles \in StrategyCandleLists
    /\ history = <<>>
    /\ idx = 0
    /\ pc = "running"
    /\ results = <<>>
    /\ equity_curve = <<>>
    /\ candles_since_last_sell = None
    /\ ema_value = None
    /\ last_buy_price = None
    /\ last = NoStep
    /\ log_fault = None
    /\ rows = <<>>
    /\ nread = 0
    /\ errors = <<>>
    /\ trace = <<>>
    /\ first_run = None
    /\ calc = NoCalc
    /\ strategy \in Strategies

\* what on_candle returns and leaves behind when called in the iteration for cl[i + 1]
StrategyCall(strat, hist, cl, i, pos) ==
    on_candle(strat, StrategyView(Append(hist, cl[i + 1]), cl), pos, SYMBOL)

\* an iteration of either run: the strategy object changes when the iteration calls it
StrategyStep ==
    /\ pc = "running"
    /\ idx < Len(candles)
    /\ \E call \in {StrategyCall(strategy, history, candles, idx, positions)} :
          \E st \in {Iteration(RunState, candles, cooldown_candles, call.ret, log_fault)} :
              /\ SetRunState(st)
              /\ trace' = Append(trace, st.last)
              /\ strategy' = IF st.last.invoked THEN call.strategy ELSE strategy
    /\ UNCHANGED <<initial_cash, lcall, nops, cooldown_candles, candles, log_fault,
                   loaderVars, first_run, calc>>

\* the first run has returned or raised; run_backtest is called again with the same
\* strategy object
StrategyRerun ==
    /\ IsNone(first_run)
    /\ pc \in {"done", "crashed"}
    /\ first_run' = Some([results |-> results, equity_curve |-> equity_curve, pc |-> pc,
                          cash |-> cash, ema_value |-> ema_value, trace |-> trace])
    /\ trace' = <<>>
    /\ SetRunState(run_backtest_init(RunState, initial_cash))
    /\ UNCHANGED <<initial_cash, lcall, nops, cooldown_candles, candles, log_fault,
                   loaderVars, calc, strategy>>

\* the owner of a BuyAndHoldStrategy object calls its execute_strategy on the first
\* candles of the list, before a run_backtest call or after one has returned or raised
ExecuteStrategy ==
    /\ strategy.kind = "BuyAndHold"
    /\ (pc = "running" /\ idx = 0) \/ pc \in {"done", "crashed"}
    /\ \E n \in {0, Len(candles)} :
          \E r \in {execute_strategy(strategy, SubSeq(candles, 1, n))} :
              /\ strategy' = r.strategy
              /\ calc' = [fn |-> "execute_strategy", history |-> SubSeq(candles, 1, n),
                          ret |-> r.ret]
    /\ UNCHANGED <<initial_cash, cash, positions, lcall, nops, cooldown_candles, candles,
                   history, idx, pc, results, equity_curve, candles_since_last_sell,
                   ema_value, last_buy_price, last, log_fault, loaderVars, rerunVars>>

StrategyNext == StrategyStep \/ StrategyRerun \/ ExecuteStrategy \/ Finish

StrategySpec == StrategyInit /\ [][StrategyNext]_vars

(***************************************************************************)
(* load_candles (data/load_csv.py).  A CSV field is a string, a sequence   *)
(* of characters; a row is a record of the six fields.  The model starts   *)
(* after the file and header checks (lines 23-62) have passed.             *)
(***************************************************************************)
ERROR_LIMIT == 10

\* csv.field_size_limit(): the longest field csv.DictReader delivers
FIELD_SIZE_LIMIT == 131072

\* what the file object cannot turn into text, written as a character of the field
\* it lies in: a byte that is no UTF-8 (UnicodeDecodeError), a byte the file system
\* fails to read (OSError)
UnreadableBytes == {"0xFF", "EIO"}

RowFields(row) == {row.timestamp, row.open, row.high, row.low, row.close, row.volume}

\* the parser of csv.DictReader raises csv.Error when it comes to the row (line 65)
FieldTooLong(row) == \E f \in RowFields(row) : Len(f) > FIELD_SIZE_LIMIT

\* the file object raises when it reads the block of the file the row lies in
Unreadable(row) ==
    \E f \in RowFields(row) : \E k \in 1..Len(f) : f[k] \in UnreadableBytes

\* the for statement (line 65), asked for row n + 1 of the rows rs, raises.  A field
\* beyond the limit raises at its row.  Unreadable bytes raise when their block is
\* read, which is at their row or at a row before it, the blocks of a file being laid
\* out by the length of its header line, which is not part of rs.
ReaderCanRaise(rs, n) ==
    \/ FieldTooLong(rs[n + 1])
    \/ \E k \in (n + 1)..Len(rs) : Unreadable(rs[k])

\* the reader delivers row n + 1
ReaderCanDeliver(rs, n) == ~FieldTooLong(rs[n + 1]) /\ ~Unreadable(rs[n + 1])

\* float(row[field]): a field the row lacks is None to csv.DictReader and float
\* raises TypeError on it as it raises ValueError on the empty text; both are the
\* empty sequence here

RowError(msg) == [ok |-> FALSE, msg |-> msg, candle |-> <<>>]

\* validate_candle_row: [ok, msg, candle]; ok = FALSE when it raises ValueError(msg)
validate_candle_row(row) ==
    CHOOSE r \in
      { IF IsNone(ts) THEN RowError("invalid timestamp")
        ELSE IF FLe(Val(ts), FZero) THEN RowError("invalid timestamp")
        ELSE IF IsNone(o) \/ IsNone(h) \/ IsNone(l) \/ IsNone(c) \/ IsNone(v)
        THEN RowError("invalid numeric value")
        ELSE IF FLe(Val(o), FZero) THEN RowError("open price must be positive")
        ELSE IF FLe(Val(h), FZero) THEN RowError("high price must be positive")
        ELSE IF FLe(Val(l), FZero) THEN RowError("low price must be positive")
        ELSE IF FLe(Val(c), FZero) THEN RowError("close price must be positive")
        ELSE IF FLt(Val(v), FZero) THEN RowError("volume cannot be negative")
        ELSE IF FLt(Val(h), Val(l)) THEN RowError("high < low")
        ELSE IF FLt(Val(h), Val(o)) \/ FLt(Val(h), Val(c))
        THEN RowError("high is not the highest price")
        ELSE IF FGt(Val(l), Val(o)) \/ FGt(Val(l), Val(c))
        THEN RowError("low is not the lowest price")
        ELSE [ok |-> TRUE, msg |-> "",
              candle |-> [timestamp |-> Val(ts), open |-> Val(o), high |-> Val(h),
                          low |-> Val(l), close |-> Val(c), volume |-> Val(v)]] :
          ts \in {ParseFloat(row.timestamp)},
          o  \in {ParseFloat(row.open)},
          h  \in {ParseFloat(row.high)},
          l  \in {ParseFloat(row.low)},
          c  \in {ParseFloat(row.close)},
          v  \in {ParseFloat(row.volume)} } : TRUE

\* The rows of the input files.
CsvRow(ts, o, h, l, c, v) ==
    [timestamp |-> ts, open |-> o, high |-> h, low |-> l, close |-> c, volume |-> v]

\* rows that validate: whole numbers; decimal fractions; an exponent, a plus sign,
\* white space and an underscore; a price that is no number, which passes every
\* comparison
GoodRows ==
    { CsvRow(<<"1">>, <<"1","0","0">>, <<"1","1","0">>, <<"9","0">>, <<"1","0","5">>, <<"5">>),
      CsvRow(<<"2">>, <<"1","0","2">>, <<"1","0","2">>, <<"9","8">>, <<"9","8">>, <<"0">>) }

OtherGoodRows ==
    { CsvRow(<<"1">>, <<"1","0","0",".","5">>, <<"1","1","0",".","5">>,
             <<"9","0",".","5">>, <<"1","0","5",".","5">>, <<"5">>),
      CsvRow(<<"2",".","5","e","0">>, <<"1","e","2">>, <<"+","1","1","0">>,
             <<" ","9","0">>, <<"1","_","0","5">>, <<"5",".","\n">>),
      CsvRow(<<"6">>, <<"n","a","n">>, <<"1","1","0">>, <<"9","0">>, <<"1","0","5">>, <<"5">>),
      CsvRow(<<"i","n","f">>, <<"1","0","0">>, <<"I","n","f","i","n","i","t","y">>,
             <<"9","0">>, <<"1","0","5">>, <<"0",".","1">>) }

BadRows ==
    { \* a field that is no number
      CsvRow(<<"3">>, <<"a","b","c">>, <<"1","1","0">>, <<"9","0">>, <<"1","0","5">>, <<"5">>),
      \* a price that is not positive
      CsvRow(<<"4">>, <<"1","0","0">>, <<"1","1","0">>, <<"-","5">>, <<"1","0","5">>, <<"5">>),
      \* a high below the open
      CsvRow(<<"5">>, <<"1","0","0">>, <<"9","5">>, <<"9","0">>, <<"9","2">>, <<"5">>) }

OtherBadRows ==
    { \* a low above the open by a fraction
      CsvRow(<<"1">>, <<"1","0","0">>, <<"1","1","0">>, <<"1","0","0",".","5">>,
             <<"1","0","5">>, <<"5">>),
      \* a timestamp that is no number, a timestamp of zero, a field left empty
      CsvRow(<<"1","e">>, <<"1","0","0">>, <<"1","1","0">>, <<"9","0">>, <<"1","0","5">>, <<"5">>),
      CsvRow(<<"0",".","0">>, <<"1","0","0">>, <<"1","1","0">>, <<"9","0">>, <<"1","0","5">>,
             <<"5">>),
      CsvRow(<<"7">>, <<"1","0","0">>, <<"1","1","0">>, <<"9","0">>, <<"1","0","5">>, <<>>),
      \* a close too small to be told from zero, a negative volume, a high below the low
      CsvRow(<<"8">>, <<"1","0","0">>, <<"1","1","0">>, <<"9","0">>,
             <<"1","e","-","4","0","0">>, <<"5">>),
      CsvRow(<<"9">>, <<"1","0","0">>, <<"1","1","0">>, <<"9","0">>, <<"1","0","5">>,
             <<"-",".","5">>),
      CsvRow(<<"9">>, <<"1","0","0">>, <<"8","9",".","9">>, <<"9","0">>, <<"1","0","5">>,
             <<"5">>) }

\* the text of n characters that reads 5: the digit and white space after it
PaddedFive(n) == Text([k \in 1..n |-> IF k = 1 THEN "5" ELSE " "])

\* rows the reader raises on: a field one character beyond the limit, of letters or
\* of a padded number, and a field with bytes that cannot be read
ReaderRows ==
    { CsvRow(<<"2">>, <<"1","0","2">>, <<"1","0","2">>, <<"9","8">>, <<"9","8">>,
             Text([k \in 1..(FIELD_SIZE_LIMIT + 1) |-> "a"])),
      CsvRow(<<"2">>, <<"1","0","2">>, <<"1","0","2">>, <<"9","8">>, <<"9","8">>,
             PaddedFive(FIELD_SIZE_LIMIT + 1)),
      CsvRow(<<"2">>, <<"1","0","2">>, <<"1","0","2">>, <<"9","8">>, <<"9","8">>,
             <<"5", "0xFF">>),
      CsvRow(<<"EIO">>, <<"1","0","2">>, <<"1","0","2">>, <<"9","8">>, <<"9","8">>,
             <<"5">>) }

\* a row with a field as long as the limit allows, which the reader delivers
LongestRows ==
    { CsvRow(<<"2">>, <<"1","0","2">>, <<"1","0","2">>, <<"9","8">>, <<"9","8">>,
             PaddedFive(FIELD_SIZE_LIMIT)) }

RowLists(kinds, n) == UNION { [1..m -> kinds] : m \in 0..n }

\* every file of up to MaxRows of the whole-number rows, every other row between two
\* such files of at most one row, files with ERROR_LIMIT bad rows in a row, and files
\* with one of these before a row the reader raises on
CsvFiles ==
    RowLists(GoodRows \cup BadRows, MaxRows)
      \cup { h \o <<r>> \o t :
                h \in RowLists(GoodRows, 1),
                r \in OtherGoodRows \cup OtherBadRows \cup ReaderRows \cup LongestRows,
                t \in RowLists(GoodRows \cup BadRows, 1) }
      \cup { h \o [k \in 1..ERROR_LIMIT |-> b] \o t :
                h \in RowLists(GoodRows, 1), b \in BadRows,
                t \in RowLists(GoodRows \cup ReaderRows, 1) }

\* the state at line 64: header accepted, nothing read
LoadInit ==
    /\ initial_cash = FInt(INITIAL_BALANCE)
    /\ cash = initial_cash
    /\ positions = EmptyPositions
    /\ lcall = NoCall
    /\ nops = 0
    /\ cooldown_candles = 0
    /\ candles = <<>>
    /\ history = <<>>
    /\ idx = 0
    /\ pc = "reading"
    /\ results = <<>>
    /\ equity_curve = <<>>
    /\ candles_since_last_sell = None
    /\ ema_value = None
    /\ last_buy_price = None
    /\ last = NoStep
    /\ log_fault = None
    /\ rows \in CsvFiles
    /\ nread = 0
    /\ errors = <<>>
    /\ trace = <<>>
    /\ first_run = None
    /\ calc = NoCalc
    /\ strategy = NoStrategy

\* one iteration of the row loop (lines 65-74); the row number counts the header
ReadRow ==
    /\ pc = "reading"
    /\ nread < Len(rows)
    /\ ReaderCanDeliver(rows, nread)
    /\ \E r \in {validate_candle_row(rows[nread + 1])} :
          LET row_num == nread + 2
              errors1 == Append(errors, [row |-> row_num, msg |-> r.msg])
          IN  /\ nread' = nread + 1
              /\ IF r.ok
                 THEN /\ candles' = Append(candles, r.candle)
                      /\ UNCHANGED <<errors, pc>>
                 ELSE /\ UNCHANGED candles
                      /\ IF Len(errors1) >= ERROR_LIMIT
                         THEN /\ errors' = Append(errors1, [row |-> 0, msg |-> "suppressed"])
                              /\ pc' = "read"      \* break
                         ELSE /\ errors' = errors1
                              /\ UNCHANGED pc
    /\ UNCHANGED <<initial_cash, cash, positions, lcall, nops, cooldown_candles, history,
                   idx, results, equity_curve, candles_since_last_sell, ema_value,
                   last_buy_price, last, log_fault, rows, rerunVars, calc, strategy>>

\* after the loop (lines 89-111): warnings are printed; sys.exit(1) when no candle
\* was accepted, otherwise the list is returned
LoadReturn ==
    /\ \/ pc = "read"
       \/ pc = "reading" /\ nread = Len(rows)
    /\ pc' = IF candles = <<>> THEN "exit" ELSE "loaded"
    /\ UNCHANGED <<initial_cash, cash, positions, lcall, nops, cooldown_candles, candles,
                   history, idx, results, equity_curve, candles_since_last_sell,
                   ema_value, last_buy_price, last, log_fault, loaderVars, rerunVars, calc, strategy>>

\* the reader raises at line 65: one of the handlers of lines 76-87 prints the error
\* and calls sys.exit(1); the candles accepted so far are not returned
ReaderFails ==
    /\ pc = "reading"
    /\ nread < Len(rows)
    /\ ReaderCanRaise(rows, nread)
    /\ pc' = "exit"
    /\ UNCHANGED <<initial_cash, cash, positions, lcall, nops, cooldown_candles, candles,
                   history, idx, results, equity_curve, candles_since_last_sell,
                   ema_value, last_buy_price, last, log_fault, loaderVars, rerunVars, calc, strategy>>

LoadNext == ReadRow \/ ReaderFails \/ LoadReturn

LoadSpec == LoadInit /\ [][LoadNext]_vars

(***************************************************************************)
(* The engine's computations called directly, one call per behaviour, on   *)
(* an engine whose ledger and configuration hold the values drawn.         *)
(***************************************************************************)
\* the prices and thresholds include the cases where the computed percentage falls
\* beside the real one: (21 - 50) / 50 * 100 and (10.5 - 25) / 25 * 100 are computed
\* as -57.99999999999999, (79 - 50) / 50 * 100 as 57.99999999999999
RiskEntryPrices == {25, 50, 100}
RiskPrices ==
    {FInt(p) : p \in {21, 49, 50, 51, 79, 97, 98, 99, 100, 101, 102, 103}}
      \cup {FDiv(FInt(21), FInt(2))}
StopLossPcts == {-58, -2, -1, 0, 3}
TakeProfitPcts == {-3, 2, 3, 58}

\* the ledger flat, or holding one unit bought at one of the entry prices
RiskPositions ==
    {EmptyPositions}
      \cup {PutPosition(EmptyPositions, SYMBOL, [amount |-> FInt(1), entry_price |-> FInt(e)]) :
              e \in RiskEntryPrices}

CalcInit ==
    /\ initial_cash = FInt(INITIAL_BALANCE)
    /\ cash = initial_cash
    /\ positions = EmptyPositions
    /\ lcall = NoCall
    /\ nops = 0
    /\ cooldown_candles = 0
    /\ candles = <<>>
    /\ history = <<>>
    /\ idx = 0
    /\ pc = "idle"
    /\ results = <<>>
    /\ equity_curve = <<>>
    /\ candles_since_last_sell = None
    /\ ema_value = None
    /\ last_buy_price = None
    /\ last = NoStep
    /\ log_fault = None
    /\ rows = <<>>
    /\ nread = 0
    /\ errors = <<>>
    /\ trace = <<>>
    /\ first_run = None
    /\ calc = NoCalc
    /\ strategy = NoStrategy

\* engine._check_stop_loss_take_profit(symbol, current_price)
CallCheckStopLossTakeProfit ==
    /\ calc = NoCalc
    /\ \E pos \in RiskPositions, p \in RiskPrices, sl \in StopLossPcts, tp \in TakeProfitPcts :
         calc' = [fn |-> "check_stop_loss_take_profit", pos |-> pos,
                  current_price |-> p, stop_loss_pct |-> FInt(sl),
                  take_profit_pct |-> FInt(tp),
                  ret |-> check_stop_loss_take_profit_at(pos, SYMBOL, p,
                                                         FInt(sl), FInt(tp))]
    /\ UNCHANGED <<brokerVars, ledgerVars, engineVars, loaderVars, rerunVars, strategy>>

SizingCash == {0, 1000, 10000}
SizingPrices == {-5, 0, 99, 100, 145, 261}
RiskPcts == {1, 2}

\* engine._calculate_position_size(price)
CallCalculatePositionSize ==
    /\ calc = NoCalc
    /\ \E c \in SizingCash, p \in SizingPrices, risk \in RiskPcts, sl \in StopLossPcts :
         calc' = [fn |-> "calculate_position_size", cash |-> c, price |-> p,
                  risk_pct |-> risk, stop_loss_pct |-> sl,
                  ret |-> calculate_position_size_at(FInt(c), FInt(p),
                                                        FInt(risk), FInt(sl))]
    /\ UNCHANGED <<brokerVars, ledgerVars, engineVars, loaderVars, rerunVars, strategy>>

\* equity curves a run can leave in the engine: the first sample is the positive
\* initial balance; a later sample is zero or negative when a position is held at a
\* candle with such an open price (get_equity: cash + amount * price)
DrawdownSamples == {-1, 0, 1, 2, 4}
DrawdownCurves ==
    {curve \in UNION {[1..n -> DrawdownSamples] : n \in 0..MaxSamples} :
        curve # <<>> => curve[1] > 0}

CallCalculateMaxDrawdown ==
    /\ calc = NoCalc
    /\ \E curve \in DrawdownCurves :
         calc' = [fn |-> "calculate_max_drawdown", curve |-> curve,
                  ret |-> calculate_max_drawdown([k \in 1..Len(curve) |-> FInt(curve[k])])]
    /\ UNCHANGED <<brokerVars, ledgerVars, engineVars, loaderVars, rerunVars, strategy>>

CalcNext ==
    \/ CallCheckStopLossTakeProfit
    \/ CallCalculatePositionSize
    \/ CallCalculateMaxDrawdown

CalcSpec == CalcInit /\ [][CalcNext]_vars

(***************************************************************************)
(* Ledger properties, checked under LedgerSpec.                            *)
(***************************************************************************)
IsTrade(c) == c.op \in {"buy", "sell"}

\* C1 (single-position invariant): while every call is on one symbol the ledger
\* holds at most one open position, and a buy made while a position is open for
\* its symbol returns false and leaves cash and positions as they were.
C1_SinglePosition ==
    /\ Cardinality(lcall.syms) <= 1 => Cardinality(OpenSymbols(positions)) <= 1
    /\ (lcall.op = "buy" /\ has_position(lcall.pos_before, lcall.symbol))
         => /\ lcall.ret = FALSE
            /\ cash = lcall.cash_before
            /\ positions = lcall.pos_before

\* an affordable, well-formed buy was made while a position was open, and declined
C1_Witness ==
    /\ lcall.op = "buy"
    /\ has_position(lcall.pos_before, lcall.symbol)
    /\ FGt(lcall.amount, FZero) /\ FGt(lcall.price, FZero)
    /\ FLe(FMul(lcall.amount, lcall.price), lcall.cash_before)
    /\ lcall.ret = FALSE

\* C2 (no leverage): every executed buy cost at most the cash held before it,
\* and cash is never negative, after any sequence of buys, sells and resets.
C2_NoLeverage ==
    /\ FGe(cash, FZero)
    /\ (lcall.op = "buy" /\ lcall.ret)
         => FLe(FMul(lcall.amount, lcall.price), lcall.cash_before)

\* a buy that spent the whole cash executed
C2_Witness ==
    /\ lcall.op = "buy" /\ lcall.ret
    /\ FGt(lcall.cash_before, FZero)
    /\ FMul(lcall.amount, lcall.price) = lcall.cash_before
    /\ cash = FZero

\* C3 (full close): every executed sell, whatever amount is requested, leaves no
\* position for the symbol and credits the whole position: cash after = cash
\* before + position amount before * price.
C3_FullClose ==
    (lcall.op = "sell" /\ lcall.ret)
      => /\ ~has_position(positions, lcall.symbol)
         /\ cash = FAdd(lcall.cash_before,
                        FMul(position_amount(lcall.pos_before, lcall.symbol), lcall.price))

\* a call that returned false left cash and positions as they were
RejectedCallsChangeNothing ==
    (IsTrade(lcall) /\ ~lcall.ret) => (cash = lcall.cash_before /\ positions = lcall.pos_before)

\* the buy half of C4
BuyRejectedAsClaimed ==
    lcall.op = "buy" =>
        (~lcall.ret <=> \/ OpenSymbols(lcall.pos_before) # {}
                        \/ FLe(lcall.amount, FZero)
                        \/ FLe(lcall.price, FZero)
                        \/ FGt(FMul(lcall.amount, lcall.price), lcall.cash_before))

\* the sell half of C4
SellRejectedAsClaimed ==
    lcall.op = "sell" =>
        (~lcall.ret <=> (~has_position(lcall.pos_before, lcall.symbol)
                         \/ FLe(lcall.price, FZero)))

\* C4: buy returns false exactly when a position is already open, amount <= 0,
\* price <= 0 or amount * price > cash before the call (a cost equal to the cash is
\* accepted); sell returns false exactly when there is no position for the symbol
\* or price <= 0; a call returning false changes neither cash nor positions.
C4_RejectionAtomic ==
    /\ BuyRejectedAsClaimed
    /\ SellRejectedAsClaimed
    /\ RejectedCallsChangeNothing

(***************************************************************************)
(* Engine properties, checked under Spec.  A candle's timestamp is its     *)
(* position in the list, so the trade at step s carries timestamp s + 1.   *)
(***************************************************************************)
Ran == idx > 0
LastTrade == results[Len(results)]

\* C5 (no look-ahead): the history handed to the strategy at step i is exactly
\* candles[0..i], and the iteration for candle i gives the same run state, whatever
\* the strategy returns, when the list is cut after candle i: its trades, equity
\* sample and the strategy's inputs do not depend on later candles.
C5_NoLookAhead ==
    /\ (Ran /\ last.invoked) => last.seen = SubSeq(candles, 1, last.step + 1)
    /\ (pc = "running" /\ idx < Len(candles)) =>
          \A o \in Outcomes :
              Iteration(RunState, SubSeq(candles, 1, idx + 1), cooldown_candles, o, log_fault)
                = Iteration(RunState, candles, cooldown_candles, o, log_fault)

\* the strategy was called at a step that later candles follow
C5_Witness ==
    /\ Ran /\ last.invoked
    /\ last.step + 1 < Len(candles)
    /\ Len(last.seen) = last.step + 1
    /\ candles[last.step + 2].open # candles[last.step + 1].open

\* C6 as claimed: no BUY executes at a step t with s < t <= s + C after a SELL at
\* step s, C the configured cooldown.
C6_Original ==
    \A a, b \in 1..Len(results) :
        (a < b /\ results[a].type = "SELL" /\ results[b].type = "BUY")
          => results[b].timestamp - results[a].timestamp > cooldown_candles

\* C6 (amended): no BUY executes at a step t with s < t < s + C after a SELL at
\* step s; the first step at which a BUY can execute is s + C.
C6_Cooldown ==
    \A a, b \in 1..Len(results) :
        (a < b /\ results[a].type = "SELL" /\ results[b].type = "BUY")
          => results[b].timestamp - results[a].timestamp >= cooldown_candles

\* after a SELL, a BUY signal that passed every other gate was held back by the cooldown
C6_Witness ==
    /\ Ran /\ last.invoked /\ Normalize(last.outcome) = BUY
    /\ last.traded = "NONE"
    /\ Len(results) > 0 /\ LastTrade.type = "SELL"
    /\ ~has_position(positions, SYMBOL)
    /\ FGt(cash, FZero)
    /\ is_above_trend(ema_value, last.price)
    /\ ~IsNone(candles_since_last_sell)
    /\ Val(candles_since_last_sell) < cooldown_candles

\* the stop-loss or take-profit condition of a position at a price
RiskCondition(pos, price) ==
    /\ has_position(pos, SYMBOL)
    /\ FGt(position_entry(pos, SYMBOL), FZero)
    /\ LET e == position_entry(pos, SYMBOL)
           gain == FMul(FSub(price, e), Hundred)
       IN  \/ FLe(gain, FMul(FInt(STOP_LOSS_PCT), e))
           \/ FGe(gain, FMul(FInt(TAKE_PROFIT_PCT), e))

\* C7 (risk-exit priority): at a step where a position is open and its stop-loss or
\* take-profit condition holds at the execution price, the strategy is not called
\* and a SELL executed on that step carries trigger STOP_LOSS or TAKE_PROFIT.
C7_RiskExitPriority ==
    (Ran /\ RiskCondition(last.pos_before, last.price))
      => /\ ~last.invoked
         /\ last.traded # "BUY"
         /\ last.traded = "SELL" =>
               /\ LastTrade.timestamp = last.step + 1
               /\ LastTrade.trigger \in {"STOP_LOSS", "TAKE_PROFIT"}

\* a take-profit exit executed
C7_Witness ==
    /\ Ran /\ RiskCondition(last.pos_before, last.price)
    /\ last.traded = "SELL"
    /\ LastTrade.trigger = "TAKE_PROFIT"
    /\ FGt(last.price, position_entry(last.pos_before, SYMBOL))

\* C8 (strategy fault is recoverable): when on_candle raises or returns a value
\* that is no string, the step is a HOLD - no trade, ledger unchanged - and the
\* run goes on: the exception never leaves run_backtest.
C8_StrategyFaultRecoverable ==
    /\ pc # "crashed"
    /\ (Ran /\ last.invoked /\ last.outcome.kind \in {"raise", "int"})
         => /\ last.traded = "NONE"
            /\ cash = last.cash_before
            /\ positions = last.pos_before

\* number of the first k candles with a positive execution price
ValidPrices(k) == Cardinality({j \in 1..k : FGt(candles[j].open, FZero)})

\* C9 (per-step anomaly): a step whose execution price is non-positive executes no
\* trade and appends no equity sample computed from that price, here for a step
\* taken with a position open, whose sample would be cash + amount * price.
C9_InvalidPriceSkipped ==
    (Ran /\ FLe(last.price, FZero) /\ has_position(last.pos_before, SYMBOL))
      => /\ last.traded = "NONE"
         /\ Len(equity_curve) = ValidPrices(idx)

\* C10 (equity curve): after k candles the curve has k samples, one appended per
\* candle with or without a trade, and the k-th is the cash plus the open
\* position's amount times candle k's execution price, as held when it is taken.
C10_EquityCurve ==
    /\ Len(equity_curve) = idx
    /\ Ran => equity_curve[idx] =
                 IF has_position(last.pos_before, SYMBOL)
                 THEN FAdd(last.cash_before,
                           FMul(position_amount(last.pos_before, SYMBOL), candles[idx].open))
                 ELSE last.cash_before

\* a sample that marks an open position to market on a step without a trade
C10_Witness ==
    /\ Ran /\ has_position(last.pos_before, SYMBOL)
    /\ last.traded = "NONE"
    /\ FGt(candles[idx].open, FZero)
    /\ equity_curve[idx] # last.cash_before
    /\ Len(equity_curve) >= 3

\* C11 (termination without early exit): when on_candle returned at every step
\* taken, run_backtest does not stop before the candle list is exhausted - not
\* after cash reaches 0, a drawdown or declined orders - and when it has stopped
\* every candle was processed once, in order.
C11_Termination ==
    /\ pc = "crashed" => last.outcome.kind = "raise"
    /\ pc = "done" => /\ history = candles
                      /\ Len(equity_curve) = Len(candles)

\* C12 (idempotent reset): whatever calls came before, a reset leaves cash equal
\* to the initial balance and no position open, and a reset that follows a reset
\* changes neither cash nor positions.
C12_IdempotentReset ==
    [][lcall'.op = "reset" =>
          /\ cash' = initial_cash
          /\ OpenSymbols(positions') = {}
          /\ lcall.op = "reset" => (cash' = cash /\ positions' = positions)]_vars

\* a reset that closed an open position and restored spent cash
C12_Witness ==
    /\ lcall.op = "reset"
    /\ OpenSymbols(lcall.pos_before) # {}
    /\ lcall.cash_before # initial_cash
    /\ cash = initial_cash
    /\ OpenSymbols(positions) = {}

\* C13: while a position is open for any symbol a buy for any symbol returns false
\* and changes nothing, and the ledger never holds open positions for two symbols
\* at once.
C13_ExclusiveSlot ==
    /\ Cardinality(OpenSymbols(positions)) <= 1
    /\ (lcall.op = "buy" /\ OpenSymbols(lcall.pos_before) # {})
         => /\ lcall.ret = FALSE
            /\ cash = lcall.cash_before
            /\ positions = lcall.pos_before

\* C13 for the calls that name the symbol of the open position, as every call of a
\* run_backtest run does
SingleSlotForOneSymbol ==
    \A sym \in Symbols :
        (lcall.op = "buy" /\ lcall.symbol = sym /\ OpenSymbols(lcall.pos_before) = {sym})
            => /\ lcall.ret = FALSE
               /\ cash = lcall.cash_before
               /\ positions = lcall.pos_before

\* C14 (round-trip scenario): from a flat ledger with cash 1000 an executed buy of
\* 2 at 100 leaves cash 800 and the position {amount 2, entry 100}; from there an
\* executed sell of the position at 110, called as the engine calls it with the
\* position's amount, leaves cash 1020 and no position, and the pnl the engine
\* writes into the SELL record, with the buy price cached as entry, is 20.
C14_RoundTrip ==
    /\ (/\ lcall.op = "buy" /\ lcall.ret
        /\ lcall.cash_before = FInt(1000)
        /\ OpenSymbols(lcall.pos_before) = {}
        /\ lcall.amount = FInt(2) /\ lcall.price = FInt(100))
         => /\ cash = FInt(800)
            /\ DictGet(positions, lcall.symbol) = [amount |-> FInt(2), entry_price |-> FInt(100)]
    /\ (/\ lcall.op = "sell" /\ lcall.ret
        /\ lcall.cash_before = FInt(800)
        /\ OpenSymbols(lcall.pos_before) = {lcall.symbol}
        /\ DictGet(lcall.pos_before, lcall.symbol) = [amount |-> FInt(2), entry_price |-> FInt(100)]
        /\ lcall.amount = position_amount(lcall.pos_before, lcall.symbol)
        /\ lcall.price = FInt(110))
         => /\ cash = FInt(1020)
            /\ OpenSymbols(positions) = {}
            /\ SellPnl(lcall.price,
                       Some(position_entry(lcall.pos_before, lcall.symbol)),
                       lcall.amount) = FInt(20)

\* the whole round trip was made: buy 2 at 100 from cash 1000, then sell at 110
C14_Witness ==
    /\ nops = 2
    /\ initial_cash = FInt(1000)
    /\ lcall.op = "sell" /\ lcall.ret
    /\ lcall.cash_before = FInt(800)
    /\ DictGet(lcall.pos_before, lcall.symbol) = [amount |-> FInt(2), entry_price |-> FInt(100)]
    /\ lcall.amount = FInt(2)
    /\ lcall.price = FInt(110)
    /\ cash = FInt(1020)

(***************************************************************************)
(* Persistence, checked under FaultSpec.                                   *)
(***************************************************************************)
\* C15 (persistence fault is recoverable): a failing write to the trade log or the
\* equity log never aborts the run - the run stops early only on a strategy
\* fault - and the step on which a write fails leaves the trade records, the
\* equity curve and the rest of the run state as the same step does when the
\* write succeeds.
C15_PersistenceFaultRecoverable ==
    /\ pc = "crashed" => (last.invoked /\ StrategyFaults(last.outcome))
    /\ (pc = "running" /\ idx < Len(candles)) =>
          \A o \in Outcomes :
              LET faulty == Iteration(RunState, candles, cooldown_candles, o, log_fault)
                  sound  == Iteration(RunState, candles, cooldown_candles, o, None)
              IN  /\ faulty.results = sound.results
                  /\ faulty.equity_curve = sound.equity_curve
                  /\ faulty.pc = sound.pc

(***************************************************************************)
(* Candle loading, checked under LoadSpec.                                 *)
(***************************************************************************)
\* C16 (input validation failure is fatal): load_candles returns a candle list
\* only when no row failed validation, and then every row of the file was read
\* and is in the list; a file with a malformed row never yields a list from
\* which that row was dropped or behind which rows were left unread.
C16_ValidationFatal ==
    pc = "loaded" => /\ errors = <<>>
                     /\ nread = Len(rows)
                     /\ Len(candles) = Len(rows)

(***************************************************************************)
(* Results of a run, checked under Spec.                                   *)
(***************************************************************************)
Performance == evaluate_performance(FALSE, equity_curve, cash, results, initial_cash)

TradesOfType(type) == {k \in 1..Len(results) : results[k].type = type}

\* C17 (evaluator results): after a run, ending_balance is the equity sample of
\* the last candle processed, or the ledger cash when no candle was processed;
\* pnl is ending_balance minus the initial balance; num_trades is the number of
\* BUY records plus the number of SELL records.
C17_Evaluator ==
    pc # "running"
      => /\ idx = 0 => Performance.ending_balance = cash
         /\ idx > 0 => Performance.ending_balance = equity_curve[idx]
         /\ Performance.pnl = FSub(Performance.ending_balance, FInt(INITIAL_BALANCE))
         /\ Performance.num_trades
              = Cardinality(TradesOfType("BUY")) + Cardinality(TradesOfType("SELL"))

\* a finished run with a BUY, a SELL and a second BUY whose position is still
\* open: the ending balance is the last sample, not the cash left
C17_Witness ==
    /\ pc = "done"
    /\ Performance.num_trades = 3
    /\ Cardinality(TradesOfType("SELL")) = 1
    /\ has_position(positions, SYMBOL)
    /\ Performance.ending_balance = equity_curve[Len(candles)]
    /\ Performance.ending_balance # cash
    /\ Performance.pnl # FZero

(***************************************************************************)
(* Consecutive runs, checked under RerunSpec.                              *)
(***************************************************************************)
\* C18 (fresh run state and reproducibility): a second run_backtest call on the
\* same engine starts with cash = initial balance, no position, no trade, no
\* equity sample and null cooldown counter, trend EMA and cached entry price,
\* whatever the first run left behind; and with the same candles and a strategy
\* that carries no state over, it ends as the first run did, with the same
\* trade list and the same equity curve.
C18_FreshRunReproducible ==
    ~IsNone(first_run)
      => /\ idx = 0 => /\ cash = FInt(INITIAL_BALANCE)
                       /\ OpenSymbols(positions) = {}
                       /\ results = <<>>
                       /\ equity_curve = <<>>
                       /\ IsNone(candles_since_last_sell)
                       /\ IsNone(ema_value)
                       /\ IsNone(last_buy_price)
         /\ pc # "running" => /\ results = Val(first_run).results
                              /\ equity_curve = Val(first_run).equity_curve
                              /\ pc = Val(first_run).pc

\* a second run that finished as the first did, which had ended with a position
\* open, its cash spent and a trade list of three
C18_Witness ==
    /\ ~IsNone(first_run)
    /\ pc = "done"
    /\ Val(first_run).cash # FInt(INITIAL_BALANCE)
    /\ ~IsNone(Val(first_run).ema_value)
    /\ Len(results) = 3
    /\ results = Val(first_run).results
    /\ has_position(positions, SYMBOL)

(***************************************************************************)
(* The equity accessor, checked under LedgerSpec.                          *)
(***************************************************************************)
PriceDicts == UNION { [D -> LedgerPrices] : D \in SUBSET Symbols }

\* C19 (ledger equity accessor): with at most one position open, get_equity
\* returns the cash when the ledger is flat, when the price dict has no price
\* for the held symbol, and when that price is not positive; otherwise it
\* returns cash + amount * price of the held symbol.
C19_EquityAccessor ==
    Cardinality(OpenSymbols(positions)) <= 1
      => \A prices \in PriceDicts :
            LET equity == get_equity(cash, positions, prices)
                held   == OpenSymbols(positions)
            IN  IF held = {} THEN equity = cash
                ELSE \A s \in held :
                        IF s \notin DOMAIN prices \/ FLe(prices[s], FZero)
                        THEN equity = cash
                        ELSE equity = FAdd(cash, FMul(position_amount(positions, s), prices[s]))

(***************************************************************************)
(* The trade list, checked under Spec.                                     *)
(***************************************************************************)
TradeTriggers == {"STRATEGY", "STOP_LOSS", "TAKE_PROFIT"}

\* C20 (trade log is a complete, append-only audit trail): the trade list only
\* grows at its end; a step on which the ledger executed a buy or a sell - the
\* call returned true, the position was opened or closed - appends exactly one
\* record, of that step and that type, a BUY with trigger STRATEGY, a SELL with
\* trigger STRATEGY, STOP_LOSS or TAKE_PROFIT; a step on which the ledger
\* declined or was not called appends none and leaves the ledger as it was.
C20_TradeLog ==
    [][/\ Len(results') >= Len(results)
       /\ SubSeq(results', 1, Len(results)) = results
       /\ idx' = idx + 1 =>
            /\ last'.ledger_ret = Some(TRUE) <=> positions' # positions
            /\ last'.ledger_ret = Some(TRUE) =>
                 /\ Len(results') = Len(results) + 1
                 /\ results'[Len(results')].timestamp = candles[idx'].timestamp
                 /\ results'[Len(results')].type = last'.traded
                 /\ results'[Len(results')].type \in {"BUY", "SELL"}
                 /\ results'[Len(results')].type = "BUY"
                      => results'[Len(results')].trigger = "STRATEGY"
                 /\ results'[Len(results')].type = "SELL"
                      => results'[Len(results')].trigger \in TradeTriggers
            /\ last'.ledger_ret # Some(TRUE) =>
                 /\ results' = results
                 /\ cash' = cash]_vars

\* after an executed BUY, a step on which the ledger declined the sell of the
\* open position and no record was appended
C20_Witness ==
    /\ Ran
    /\ last.ledger_ret = Some(FALSE)
    /\ has_position(positions, SYMBOL)
    /\ Len(results) = 1
    /\ LastTrade.type = "BUY"
    /\ LastTrade.timestamp < idx

(***************************************************************************)
(* C21: the stop-loss / take-profit decision.                              *)
(***************************************************************************)
\* the percentage gain of a position entered at entry, at the price p
PnlPct(p, entry) == FMul(FDiv(FSub(p, entry), entry), Hundred)

\* C21: for a call of the check on an open position with entry price e > 0,
\* current price p and thresholds stop_loss_pct and take_profit_pct, with
\* pnl_pct = (p - e) / e * 100: the result is STOP_LOSS iff pnl_pct <= stop_loss_pct,
\* TAKE_PROFIT iff pnl_pct >= take_profit_pct and not pnl_pct <= stop_loss_pct, and
\* nothing otherwise; on a flat ledger the result is nothing; and with
\* stop_loss_pct = -2, entry 100 and price 97 the result is STOP_LOSS.
C21_StopLossTakeProfit ==
    calc.fn = "check_stop_loss_take_profit" =>
        IF ~has_position(calc.pos, SYMBOL)
        THEN calc.ret = None
        ELSE LET e       == position_entry(calc.pos, SYMBOL)
                 pnl_pct == PnlPct(calc.current_price, e)
                 stop    == FLe(pnl_pct, calc.stop_loss_pct)
                 take    == FGe(pnl_pct, calc.take_profit_pct)
             IN  /\ FGt(e, FZero)
                 /\ (calc.ret = Some("STOP_LOSS")) <=> stop
                 /\ (calc.ret = Some("TAKE_PROFIT")) <=> (take /\ ~stop)
                 /\ (calc.ret = None) <=> (~stop /\ ~take)
                 /\ (/\ calc.stop_loss_pct = FInt(-2)
                     /\ e = FInt(100)
                     /\ calc.current_price = FInt(97)) => calc.ret = Some("STOP_LOSS")

\* the check was called on a position whose gain is exactly the stop-loss threshold and
\* at least the take-profit threshold, and answered STOP_LOSS
C21_Witness ==
    /\ calc.fn = "check_stop_loss_take_profit"
    /\ has_position(calc.pos, SYMBOL)
    /\ PnlPct(calc.current_price, position_entry(calc.pos, SYMBOL)) = calc.stop_loss_pct
    /\ FGe(calc.stop_loss_pct, calc.take_profit_pct)
    /\ calc.ret = Some("STOP_LOSS")

(***************************************************************************)
(* C22: position sizing.                                                   *)
(***************************************************************************)
\* risk_amount and stop_distance of a sizing call, as line 90 and line 91 compute them
SizingRiskAmount == FMul(FInt(calc.cash), FDiv(FInt(calc.risk_pct), FInt(100)))
SizingStopDistance ==
    FMul(FInt(calc.price), FDiv(FAbs(FInt(calc.stop_loss_pct)), FInt(100)))

\* the size is the claimed value: 0 on a degenerate input, else the smaller quotient
SizingValue ==
    \E stop_distance \in {SizingStopDistance} :
        IF \/ calc.price <= 0
           \/ calc.cash <= 0
           \/ FLe(stop_distance, FZero)
        THEN calc.ret = FZero
        ELSE calc.ret = FMin(FDiv(SizingRiskAmount, stop_distance),
                             FDiv(FInt(calc.cash), FInt(calc.price)))

\* C22: for every sizing call the size is min(risk_amount / stop_distance, cash / price)
\* with risk_amount = cash * risk_pct / 100 and stop_distance = price * |stop_loss_pct| / 100,
\* and 0 when price <= 0, cash <= 0 or stop_distance <= 0; and the computed size
\* satisfies size * price <= cash and size * stop_distance <= risk_amount.
C22_PositionSize ==
    calc.fn = "calculate_position_size" =>
        /\ SizingValue
        /\ FLe(FMul(calc.ret, FInt(calc.price)), FInt(calc.cash))
        /\ FLe(FMul(calc.ret, SizingStopDistance), SizingRiskAmount)

(***************************************************************************)
(* C23: the trend filter gate.                                             *)
(***************************************************************************)
\* C23: whenever the last iteration executed a BUY, the EMA held at that step is
\* seeded and the execution price is strictly above it, the step is not the first
\* candle of the run, and the BUY record carries that execution price.
C23_TrendGate ==
    last.traded = "BUY" =>
        /\ ~IsNone(ema_value)
        /\ FGt(last.price, Val(ema_value))
        /\ last.step >= 1
        /\ LastTrade.type = "BUY"
        /\ LastTrade.price = last.price

\* the first BUY of a run executed, after the first candle, above the seeded EMA
C23_Witness ==
    /\ last.traded = "BUY"
    /\ ~IsNone(ema_value)
    /\ FGt(last.price, Val(ema_value))
    /\ Len(results) = 1
    /\ last.step >= 1

(***************************************************************************)
(* C24: the trend EMA is built from prior closes only.                     *)
(***************************************************************************)
\* close[j] of the run's candle list, j counted from 0
CloseOf(j) == candles[j + 1].close

\* the EMA the claim describes for step i: null on step 0, close[0] on step 1, and
\* close[i-1] * k + (EMA of step i-1) * (1 - k) on each step i >= 2, k = 2 / (period + 1)
RECURSIVE PriorClosesEma(_)
PriorClosesEma(i) ==
    IF i = 0 THEN None
    ELSE IF i = 1 THEN Some(CloseOf(0))
    ELSE LET k == FDiv(FInt(2), FInt(TREND_EMA_PERIOD + 1))
         IN  Some(FAdd(FMul(CloseOf(i - 1), k),
                       FMul(Val(PriorClosesEma(i - 1)), FSub(FInt(1), k))))

\* C24: before any iteration the EMA is null, and after the iteration for step i the
\* EMA held is the one built from closes 0..i-1 as the claim describes: null on
\* step 0, candle 0's close on step 1, one update with close[i-1] on each later step.
C24_EmaPriorCloses ==
    IF idx = 0 THEN ema_value = None
    ELSE ema_value = PriorClosesEma(idx - 1)

\* step 2 or later was processed after candles with different closes, so the EMA held
\* is a proper mix of prior closes
C24_Witness ==
    /\ idx >= 3
    /\ ~IsNone(ema_value)
    /\ CloseOf(0) # CloseOf(1)
    /\ Val(ema_value) # CloseOf(0)
    /\ Val(ema_value) # CloseOf(1)

(***************************************************************************)
(* C25: the cooldown counter.                                              *)
(***************************************************************************)
SellRecords == {k \in 1..Len(results) : results[k].type = "SELL"}

\* the step of the run's latest executed SELL (a record's timestamp is its candle's
\* position in the list, counted from 1)
LastSellStep == results[CHOOSE k \in SellRecords : \A j \in SellRecords : j <= k].timestamp - 1

\* the last iteration met a BUY signal with every gate other than the cooldown open:
\* no position, the price above the trend, cash at hand, and a size that is positive
\* and that the ledger can pay for
BuyOnlyCooldownToPass ==
    /\ last.invoked
    /\ last.outcome.kind = "str"
    /\ Normalize(last.outcome) = BUY
    /\ ~has_position(last.pos_before, SYMBOL)
    /\ is_above_trend(ema_value, last.price)
    /\ FGt(last.cash_before, FZero)
    /\ \E size \in {calculate_position_size(last.cash_before, last.price)} :
          /\ FGt(size, FZero)
          /\ ~CostExceedsCash(FMul(size, last.price), last.cash_before)

\* C25: the counter is null as long as the run has executed no SELL; after a SELL at
\* step s it is t - s once step t >= s is processed (0 at the SELL itself), until the
\* next SELL; and a BUY signal that passes every other gate executes exactly when the
\* counter is null or has reached the cooldown length C, so it is blocked at every
\* step t with s < t < s + C and not blocked at step s + C.
C25_CooldownCounter ==
    /\ IsNone(candles_since_last_sell) <=> SellRecords = {}
    /\ SellRecords # {} => candles_since_last_sell = Some((idx - 1) - LastSellStep)
    /\ BuyOnlyCooldownToPass =>
          (last.traded = "BUY" <=> \/ IsNone(candles_since_last_sell)
                                   \/ Val(candles_since_last_sell) >= cooldown_candles)

(***************************************************************************)
(* C26: warm-up.                                                           *)
(***************************************************************************)
\* the warm-up lengths a configuration can ask for that fall within a run
WarmUpCounts == 1..MaxCandles

\* C26: for every configured warm-up length w, an iteration for a step below w
\* evaluates no risk exit, does not invoke the strategy and executes no BUY or SELL.
C26_WarmUp ==
    \A w \in WarmUpCounts :
        (Ran /\ last.step < w) =>
            /\ IsNone(last.trigger)
            /\ ~last.invoked
            /\ last.traded = "NONE"

(***************************************************************************)
(* C27: signal normalisation.                                              *)
(***************************************************************************)
\* the forms of a capital letter that differ from it in case only; the long s,
\* U+017F, is a small s
CaseForms(letter) ==
    {letter} \cup {AsciiLower[j] : j \in {i \in 1..26 : AsciiUpper[i] = letter}}
             \cup (IF letter = "S" THEN {"U+017F"} ELSE {})

\* chars spells word (given in capitals) in some mix of upper and lower case
SpelledAs(chars, word) ==
    /\ Len(chars) = Len(word)
    /\ \A k \in 1..Len(word) : chars[k] \in CaseForms(word[k])

\* the step taken has the effect the same step has when the strategy returns word
ActsAs(word) ==
    \E st \in {Iteration(RunState, candles, cooldown_candles, StrOutcome(word), log_fault)} :
        /\ cash' = st.cash
        /\ positions' = st.positions
        /\ results' = st.results
        /\ last_buy_price' = st.last_buy_price
        /\ candles_since_last_sell' = st.candles_since_last_sell
        /\ last'.traded = st.last.traded

\* the counter as the increment at the top of the iteration leaves it
CounterAtSignal ==
    IF IsNone(candles_since_last_sell) THEN None ELSE Some(Val(candles_since_last_sell) + 1)

\* the step taken called the strategy and got a string or nothing
SignalRead == idx' = idx + 1 /\ last'.invoked /\ last'.outcome.kind \in {"str", "none"}

ReadBuy == last'.outcome.kind = "str" /\ SpelledAs(last'.outcome.chars, BUY)
ReadSell == last'.outcome.kind = "str" /\ SpelledAs(last'.outcome.chars, SELL)

\* C27 as claimed: a string spelling BUY in any mix of cases has the effect of "BUY"
\* and one spelling SELL the effect of "SELL"; any other string, the empty string and
\* an absent value leave the ledger, the cooldown counter, the cached entry price and
\* the trade list as they were before the step.
C27_Original ==
    [][SignalRead =>
          IF ReadBuy THEN ActsAs(BUY)
          ELSE IF ReadSell THEN ActsAs(SELL)
          ELSE /\ cash' = cash
               /\ positions' = positions
               /\ results' = results
               /\ last_buy_price' = last_buy_price
               /\ candles_since_last_sell' = candles_since_last_sell]_vars

\* C27 (amended): a string spelling BUY in any mix of cases has the effect of "BUY"
\* and one spelling SELL the effect of "SELL"; any other string, the empty string and
\* an absent value leave the ledger, the cached entry price and the trade list as they
\* were before the step, and the cooldown counter as the iteration's increment, which
\* precedes the strategy call, left it: one higher than before the step when it was
\* active, null otherwise.
C27_SignalNormalization ==
    [][SignalRead =>
          IF ReadBuy THEN ActsAs(BUY)
          ELSE IF ReadSell THEN ActsAs(SELL)
          ELSE /\ cash' = cash
               /\ positions' = positions
               /\ results' = results
               /\ last_buy_price' = last_buy_price
               /\ candles_since_last_sell' = CounterAtSignal]_vars

\* after a SELL, a step whose strategy call returned the empty string: the counter went
\* from 0 to 1 and nothing else changed
C27_Witness ==
    /\ last.invoked
    /\ last.outcome = StrOutcome(<<>>)
    /\ last.traded = "NONE"
    /\ results # <<>>
    /\ LastTrade.type = "SELL"
    /\ candles_since_last_sell = Some(1)

(***************************************************************************)
(* C28: SELL bookkeeping.                                                  *)
(***************************************************************************)
\* C28: whenever the last iteration executed a SELL, by the strategy or by a risk
\* exit, its record carries the pnl (exit price - entry price of the position that
\* was closed) * the size of that position, the cooldown counter is 0 and the cached
\* entry price is null; and in every state the cached entry price is non-null exactly
\* when a position is open, and is then the ledger's entry price.
C28_SellBookkeeping ==
    /\ last.traded = "SELL" =>
          /\ LastTrade.type = "SELL"
          /\ LastTrade.trigger \in TradeTriggers
          /\ LastTrade.price = last.price
          /\ LastTrade.amount = position_amount(last.pos_before, SYMBOL)
          /\ LastTrade.pnl = FMul(FSub(last.price, position_entry(last.pos_before, SYMBOL)),
                                  position_amount(last.pos_before, SYMBOL))
          /\ candles_since_last_sell = Some(0)
          /\ IsNone(last_buy_price)
    /\ ~IsNone(last_buy_price) <=> has_position(positions, SYMBOL)
    /\ has_position(positions, SYMBOL) =>
          last_buy_price = Some(position_entry(positions, SYMBOL))

(***************************************************************************)
(* C29: win rate.                                                          *)
(***************************************************************************)
\* the SELL records of the trade list with a positive realized pnl
WinningSells == {k \in SellRecords : FGt(results[k].pnl, FZero)}

\* C29: on the trade list of every reachable state of a run, the win-rate computation
\* reports as total the number of SELL records, as winners the number of SELL records
\* with positive realized pnl, and as rate winners / total in percent, 0 without a
\* SELL: pairing by price counts what the records' pnl counts.
C29_WinRate ==
    calculate_win_rate(results) =
        [rate    |-> IF SellRecords = {} THEN FZero
                     ELSE FMul(FDiv(FInt(Cardinality(WinningSells)), FInt(Cardinality(SellRecords))), Hundred),
         winning |-> Cardinality(WinningSells),
         total   |-> Cardinality(SellRecords)]

\* a run that closed a position at a gain
C29_Witness ==
    /\ SellRecords # {}
    /\ WinningSells # {}
    /\ calculate_win_rate(results).rate = Hundred

\* (equity[i] - equity[j]) / equity[i] * 100 in the floats of the code
PairDrawdown(curve, i, j) ==
    FMul(FDiv(FSub(FInt(curve[i]), FInt(curve[j])), FInt(curve[i])), FInt(100))

\* the pairs i <= j of a curve for which that quotient is defined
DrawdownPairs(curve) ==
    {p \in (1..Len(curve)) \X (1..Len(curve)) : p[1] <= p[2] /\ curve[p[1]] # 0}

\* value is the largest PairDrawdown of the curve
IsMaxPairDrawdown(curve, value) ==
    \E ds \in {{PairDrawdown(curve, p[1], p[2]) : p \in DrawdownPairs(curve)}} :
       /\ value \in ds
       /\ \A d \in ds : FLe(d, value)

NonDecreasing(curve) == \A k \in 1..(Len(curve) - 1) : curve[k] <= curve[k + 1]
AllPositive(curve) == \A k \in 1..Len(curve) : curve[k] > 0
NeverNegative(curve) == \A k \in 1..Len(curve) : curve[k] >= 0

\* what the claim says of one call
DrawdownAsClaimed(curve, ret) ==
    /\ ~ret.raised
    /\ IF Len(curve) < 2 THEN ret.value = FZero ELSE IsMaxPairDrawdown(curve, ret.value)
    /\ NonDecreasing(curve) => ret.value = FZero
    /\ AllPositive(curve) => FLe(FZero, ret.value) /\ FLe(ret.value, FInt(100))

\* C30: for every equity curve the maximum drawdown is the largest
\* (equity[i] - equity[j]) / equity[i] * 100 over the pairs i <= j, it is 0 for a
\* non-decreasing curve and for a curve of fewer than 2 samples, and it lies in
\* [0, 100] when all samples are positive.
C30_MaxDrawdown ==
    calc.fn = "calculate_max_drawdown" => DrawdownAsClaimed(calc.curve, calc.ret)

\* the same on the curves without a negative sample, where the result also lies in
\* [0, 100]
MaxDrawdownWithoutNegativeSamples ==
    (calc.fn = "calculate_max_drawdown" /\ NeverNegative(calc.curve))
        => /\ DrawdownAsClaimed(calc.curve, calc.ret)
           /\ FLe(FZero, calc.ret.value) /\ FLe(calc.ret.value, FInt(100))

(***************************************************************************)
(* The strategies run by the engine, checked under StrategySpec.           *)
(***************************************************************************)
\* the steps of the current run at which on_candle was called
Invocations == {k \in 1..Len(trace) : trace[k].invoked}
BuysExecuted == {k \in 1..Len(results) : results[k].type = "BUY"}

\* execute_strategy was called on the strategy object, which is fresh no more
DirectCall == calc.fn = "execute_strategy"

\* what BuyAndHoldStrategy.on_candle returns over a run: BUY at the first call only,
\* SELL never
BuyAndHoldSignals ==
    \A k \in Invocations :
       /\ (trace[k].outcome = StrOutcome(BUY)) = (\A j \in Invocations : k <= j)
       /\ trace[k].outcome # StrOutcome(SELL)

\* C31: a fresh BuyAndHoldStrategy returns BUY on exactly its first invocation and
\* never SELL, and a run of the engine with it over a non-empty candle list executes
\* exactly one BUY.
C31_BuyAndHold ==
    (strategy.kind = "BuyAndHold" /\ IsNone(first_run) /\ ~DirectCall)
        => /\ BuyAndHoldSignals
           /\ (pc = "done" /\ candles # <<>>) => Cardinality(BuysExecuted) = 1

\* the signals alone are as claimed
BuyAndHoldSignalsAsClaimed ==
    (strategy.kind = "BuyAndHold" /\ IsNone(first_run) /\ ~DirectCall) => BuyAndHoldSignals

(***************************************************************************)
(* The shape of a run's trade list, checked under Spec.                    *)
(***************************************************************************)
\* C32: the records of the trade list alternate BUY, SELL, BUY, ... from a BUY on, so
\* #SELL <= #BUY <= #SELL + 1, and between steps the ledger holds an open position
\* exactly when the last record is a BUY.
C32_TradeOrdering ==
    /\ \A k \in 1..Len(results) :
          results[k].type = IF k % 2 = 1 THEN "BUY" ELSE "SELL"
    /\ Cardinality(TradesOfType("SELL")) <= Cardinality(TradesOfType("BUY"))
    /\ Cardinality(TradesOfType("BUY")) <= Cardinality(TradesOfType("SELL")) + 1
    /\ has_position(positions, SYMBOL) = (results # <<>> /\ LastTrade.type = "BUY")

\* a position re-opened after a round trip: BUY, SELL, BUY with the position open,
\* and before that a flat ledger after BUY, SELL
C32_Witness ==
    /\ Len(results) = 3
    /\ results[1].type = "BUY" /\ results[2].type = "SELL" /\ results[3].type = "BUY"
    /\ has_position(positions, SYMBOL)
    /\ last.traded = "BUY"
    /\ OpenSymbols(last.pos_before) = {}

\* the mark-to-market value cash + size * p of a ledger
ValueAt(c, pos, p) == FAdd(c, FMul(position_amount(pos, SYMBOL), p))

\* the size held from the step before the last one to the last one, and the execution
\* price of the step before
HeldBetween == position_amount(last.pos_before, SYMBOL)
PreviousPrice == ExecutionPrice(candles[idx - 1])

\* C33: an executed BUY or SELL at price p leaves cash + size * p unchanged; the
\* balance_after of every trade record is the equity sample appended on the step of
\* the record; and from one step to the next the equity sample changes only through
\* the price: it stays where it was while nothing is held or the price is the same,
\* and it moves with the price, never against it, while a size is held.
C33_EquityConserved ==
    /\ (idx >= 1 /\ last.traded # "NONE")
          => ValueAt(cash, positions, last.price)
               = ValueAt(last.cash_before, last.pos_before, last.price)
    /\ \A k \in 1..Len(results) :
          /\ results[k].timestamp \in 1..Len(equity_curve)
          /\ results[k].balance_after = equity_curve[results[k].timestamp]
    /\ idx >= 2
          => /\ (HeldBetween = FZero \/ last.price = PreviousPrice)
                   => equity_curve[idx] = equity_curve[idx - 1]
             /\ FGe(last.price, PreviousPrice)
                   => FGe(equity_curve[idx], equity_curve[idx - 1])
             /\ FLe(last.price, PreviousPrice)
                   => FLe(equity_curve[idx], equity_curve[idx - 1])

\* a SELL at a price above the entry price, in a run with two trades: the equity
\* rose with the price before the SELL, and the SELL left it where it was
C33_Witness ==
    /\ idx >= 2
    /\ last.traded = "SELL"
    /\ Len(results) = 2
    /\ FGt(last.price, ExecutionPrice(candles[idx - 1]))
    /\ FGt(equity_curve[idx], equity_curve[idx - 1])
    /\ cash = equity_curve[idx]

\* C34: no step appends more than one trade record: the records carry the timestamps
\* of different candles, in the order of the candles, so a position opened by the
\* BUY of one step is closed, by the strategy or by a risk exit, at a later step at
\* the earliest, and a BUY that follows a SELL executes at a later step than the SELL.
C34_OneTradePerCandle ==
    /\ \A k \in 1..Len(results) : results[k].timestamp \in 1..idx
    /\ \A j, k \in 1..Len(results) :
          j < k => results[j].timestamp < results[k].timestamp

\* trades on three consecutive candles: a BUY, the risk exit of the next step, and a
\* BUY again on the step after that
C34_Witness ==
    /\ Len(results) = 3
    /\ results[1].type = "BUY"
    /\ results[2].type = "SELL" /\ results[2].trigger \in {"STOP_LOSS", "TAKE_PROFIT"}
    /\ results[3].type = "BUY"
    /\ results[2].timestamp = results[1].timestamp + 1
    /\ results[3].timestamp = results[2].timestamp + 1

\* the sum of the pnl fields of the SELL records among the first k records
RECURSIVE RealizedPnl(_)
RealizedPnl(k) ==
    IF k = 0 THEN FZero
    ELSE IF results[k].type = "SELL" THEN FAdd(RealizedPnl(k - 1), results[k].pnl)
    ELSE RealizedPnl(k - 1)

\* C35: between steps, whenever the ledger holds no position, cash is the initial
\* balance plus the sum of the realized pnl of the SELL records appended so far.
C35_RealizedPnl ==
    ~has_position(positions, SYMBOL)
        => cash = FAdd(initial_cash, RealizedPnl(Len(results)))

\* the same while every round trip so far was entered and left at one price: nothing
\* was gained or lost and cash is the initial balance again
FlatAfterEvenRoundTrips ==
    (/\ ~has_position(positions, SYMBOL)
     /\ \A k \in 1..Len(results) : results[k].type = "SELL" => results[k].pnl = FZero)
        => cash = initial_cash

\* the candle list with the close of candle number k replaced
WithClose(cl, k, close) == [cl EXCEPT ![k].close = close]

\* what the iteration for candle number idx + 1 trades when that candle closes at
\* `close`, everything before it and its open being what they are
TradedWithClose(close) ==
    LET cl2  == WithClose(candles, idx + 1, close)
        call == StrategyCall(strategy, history, cl2, idx, positions)
    IN  Iteration(RunState, cl2, cooldown_candles, call.ret, log_fault).last.traded

\* an iteration of the first run was taken
FirstRunIteration == IsNone(first_run) /\ pc = "running" /\ idx' = idx + 1

\* C36: an order of step i is filled at the open of candle i, and the trade of step i
\* does not depend on the close of candle i: a run whose candles are the same before
\* i and have the same open at i executes the same trade, or none, at step i.
C36_NoFillLookAhead ==
    [][FirstRunIteration =>
          /\ last'.traded # "NONE"
                => results'[Len(results')].price = candles[idx + 1].open
          /\ \A c \in StrategyCandleKinds :
                c.open = candles[idx + 1].open => TradedWithClose(c.close) = last'.traded]_vars

\* the fills alone are at the open of the candle of their step
FillsAtOpen ==
    \A k \in 1..Len(results) : results[k].price = candles[results[k].timestamp].open

\* the values on_candle returned over a run, by step
SignalsOf(tr) == [k \in {j \in 1..Len(tr) : tr[j].invoked} |-> tr[k].outcome]

\* C37: a second run_backtest call with the same strategy object, the same candles
\* and the same symbol ends with the trade list the first call ended with, and the
\* strategy returns in the second run what it returned in the first.
C37_SameStrategyReproducible ==
    (~IsNone(first_run) /\ pc \in {"done", "crashed"} /\ ~DirectCall)
        => /\ results = Val(first_run).results
           /\ SignalsOf(trace) = SignalsOf(Val(first_run).trace)

\* the trade lists alone
SameTradeListBothRuns ==
    (~IsNone(first_run) /\ pc \in {"done", "crashed"} /\ ~DirectCall)
        => results = Val(first_run).results

\* a first call that raised is followed by a second call that raises at the same step
\* with the same trade list
RaisedRunsRepeat ==
    (~IsNone(first_run) /\ Val(first_run).pc = "crashed" /\ pc # "running")
        => /\ pc = "crashed"
           /\ results = Val(first_run).results
           /\ Len(trace) = Len(Val(first_run).trace)

====
